---- MODULE Spec2Model ----
(***************************************************************************)
(* Model of the RISRAL session orchestrator (src/orchestrator): the phase  *)
(* state machine of main (planning -> execution -> review -> complete),    *)
(* the planning loop, task-by-task execution, the persisted session files  *)
(* and the agent subprocess each step awaits.                              *)
(*                                                                         *)
(* One action is one step of the orchestrator process between two          *)
(* observable points: an await (agent subprocess, operator prompt) or a    *)
(* single write to the session directory.  The process can be interrupted  *)
(* (signal, crash) between any two steps; what survives is the disk.       *)
(***************************************************************************)
EXTENDS Integers, Sequences, FiniteSets, TLC

VARIABLES
    pc,     \* position of the orchestrator process in main ("off": no process)
    fs,     \* the session directory and the archive area on disk
    mem,    \* the local variables of main / runPlanning / runExecution
    proc,   \* the agent subprocess spawned by runClaude
    ui,     \* the value the last operator prompt returned
    obs     \* observation of the run: events and counters the claims speak about

vars == <<pc, fs, mem, proc, ui, obs>>

----------------------------------------------------------------------------
(* Bounds of the model *)

\* interruptions (kill / crash of the orchestrator process) per behaviour
MaxInterrupts == 1
\* iterations of the human-terminated planning loop explored per run
MaxRevisions == 2

----------------------------------------------------------------------------
(* Values *)

\* A file is a sequence of at most one content: << >> when it does not exist
NoFile == << >>
File(content) == <<content>>
Exists(f) == f # << >>
Content(f) == f[1]
CANCEL == "cancel"          \* the symbol @clack/prompts returns on Ctrl-C
EmptyOut == "empty"         \* stdout ""
BlankOut == "blank"         \* stdout of whitespace only
TextOut == "text"           \* stdout with visible text

Terminal == {"completed", "failed"}

\* The feedback texts an operator can type (ui.collectFeedback validates
\* that the trimmed value is non-empty, so "" is never returned).
Feedbacks == {"fb1", "fb2"}

----------------------------------------------------------------------------
(* plan.md as text *)

DocNoTasks == "## Approach\nwe do x"
DocHeading ==
    "## Approach\nwe do x\n## Tasks\n### 1. Set up database\np1\n\np2\n"
        \o "### 2. Write API\np3\n\n## Success Criteria\nmust"
DocInline == "## Tasks\n7. Api\n\n---\nnotes"

\* the plans an agent writes in this model: no task, two tasks, one task
PlanDocs == {DocNoTasks, DocHeading, DocInline}

----------------------------------------------------------------------------
(* Strings: positions count from 1, Len(s) + 1 is the end of s *)

\* s.slice(i - 1, j): the characters i..j of s, "" when there is none
Slice(s, i, j) ==
    IF i > j \/ i > Len(s) THEN ""
    ELSE SubSeq(s, i, IF j > Len(s) THEN Len(s) ELSE j)

\* the character at position i, "" outside of s
At(s, i) == IF i >= 1 /\ i <= Len(s) THEN SubSeq(s, i, i) ELSE ""

\* \s and \d on the characters of the plans of this model
IsSpace(c) == c \in {" ", "\t", "\n"}
IsDigit(c) == c \in {"0", "1", "2", "3", "4", "5", "6", "7", "8", "9"}

\* the position after the longest run of \s (of \d) that starts at i
RECURSIVE SkipSpaces(_, _)
SkipSpaces(s, i) ==
    IF i <= Len(s) /\ IsSpace(At(s, i)) THEN SkipSpaces(s, i + 1) ELSE i

RECURSIVE SkipDigits(_, _)
SkipDigits(s, i) ==
    IF i <= Len(s) /\ IsDigit(At(s, i)) THEN SkipDigits(s, i + 1) ELSE i

\* the position of the first "\n" at or after i, the end when there is none:
\* where a greedy (.+) without the s flag stops
RECURSIVE LineEnd(_, _)
LineEnd(s, i) ==
    IF i <= Len(s) /\ At(s, i) # "\n" THEN LineEnd(s, i + 1) ELSE i

StartsWith(s, i, lit) ==
    i >= 1 /\ i + Len(lit) - 1 <= Len(s) /\ Slice(s, i, i + Len(lit) - 1) = lit

\* String.prototype.indexOf(lit, from): 0 when lit does not occur
RECURSIVE IndexOf(_, _, _)
IndexOf(s, lit, from) ==
    IF from + Len(lit) - 1 > Len(s) THEN 0
    ELSE IF StartsWith(s, from, lit) THEN from
    ELSE IndexOf(s, lit, from + 1)

\* String.prototype.lastIndexOf(lit, from): the last occurrence that starts
\* at or before from, 0 when there is none
RECURSIVE LastIndexOf(_, _, _)
LastIndexOf(s, lit, from) ==
    IF from < 1 THEN 0
    ELSE IF StartsWith(s, from, lit) THEN from
    ELSE LastIndexOf(s, lit, from - 1)

\* the position of the last character of s[1..j] that is not \s, 0 if none
RECURSIVE TrimEnd(_, _)
TrimEnd(s, j) ==
    IF j >= 1 /\ IsSpace(At(s, j)) THEN TrimEnd(s, j - 1) ELSE j

\* String.prototype.trim
trim(s) == Slice(s, SkipSpaces(s, 1), TrimEnd(s, Len(s)))

\* s.replace(/lit/g, ""): every occurrence of lit removed, left to right
RECURSIVE Remove(_, _)
Remove(s, lit) ==
    IF Len(s) < Len(lit) THEN s
    ELSE IF StartsWith(s, 1, lit)
         THEN Remove(Slice(s, Len(lit) + 1, Len(s)), lit)
         ELSE At(s, 1) \o Remove(Slice(s, 2, Len(s)), lit)

\* s.split("\n")
RECURSIVE Split(_)
Split(s) ==
    LET e == LineEnd(s, 1) IN
    IF e > Len(s) THEN <<s>>
    ELSE <<Slice(s, 1, e - 1)>> \o Split(Slice(s, e + 1, Len(s)))

\* parseInt(digits, 10)
RECURSIVE parseInt(_)
parseInt(digits) ==
    IF digits = "" THEN 0
    ELSE LET last == At(digits, Len(digits))
             v == CHOOSE n \in 0..9 : At("0123456789", n + 1) = last
         IN 10 * parseInt(Slice(digits, 1, Len(digits) - 1)) + v

Max(S) == CHOOSE n \in S : \A k \in S : k <= n

\* the code-span mark of markdown; a TLA+ string cannot hold that character,
\* so the plans of this model write it as an apostrophe
Backquote == "'"

----------------------------------------------------------------------------
(* parsePlanTasks *)

PendingTask(i, title, description) ==
    [index |-> i, title |-> title, description |-> description,
     status |-> "pending", completedAt |-> FALSE]

\* the lookahead (?=\n## [^#]|\n---|\s*$) at position e of plan
SectionStops(plan, e) ==
    \/ StartsWith(plan, e, "\n## ") /\ e + 4 <= Len(plan) /\ At(plan, e + 4) # "#"
    \/ StartsWith(plan, e, "\n---")
    \/ SkipSpaces(plan, e) > Len(plan)

\* the lazy ([\s\S]*?) from c: the first position at which the lookahead holds
RECURSIVE SectionEnd(_, _)
SectionEnd(plan, e) ==
    IF SectionStops(plan, e) THEN e ELSE SectionEnd(plan, e + 1)

\* mutant: a plan without a Tasks section is parsed as a whole
TasksMatchOrPlan(plan, from) == <<plan>>

\* plan.match(/## Tasks\s*\n([\s\S]*?)(?=\n## [^#]|\n---|\s*$)/) searched
\* from position from: <<tasksMatch[1]>>, << >> when there is no match. The
\* match starts at the first "## Tasks" whose following run of \s holds a
\* "\n"; the greedy \s* leaves the last "\n" of the run to \n
RECURSIVE TasksMatch(_, _)
TasksMatch(plan, from) ==
    LET m == IndexOf(plan, "## Tasks", from) IN
    IF m = 0 THEN << >>
    ELSE LET q == m + 8
             r == SkipSpaces(plan, q)
             nl == { k \in q..(r - 1) : At(plan, k) = "\n" } IN
         IF nl = {} THEN TasksMatch(plan, m + 1)
         ELSE LET c == Max(nl) + 1 IN
              <<Slice(plan, c, SectionEnd(plan, c) - 1)>>

\* mutant: the task index is taken from the ordinal written in the plan
NextIndexFromOrdinal(tasks, num) == num - 1

\* index: tasks.length
NextIndex(tasks, num) == Len(tasks)

\* headingPattern /###\s*(\d+)\.\s+(.+)/ matched at position m of s:
\* <<[num, title, pos]>>, << >> when it does not match there. \s+ gives
\* characters back until (.+) has a character that is not "\n" to start on
HeadingAt(s, m) ==
    IF ~StartsWith(s, m, "###") THEN << >>
    ELSE LET p == SkipSpaces(s, m + 3)
             d == SkipDigits(s, p) IN
         IF d = p \/ At(s, d) # "." THEN << >>
         ELSE LET w == SkipSpaces(s, d + 1)
                  G == { k \in (d + 2)..w : k <= Len(s) /\ At(s, k) # "\n" } IN
              IF G = {} THEN << >>
              ELSE LET g == Max(G)
                       end == LineEnd(s, g) IN
                   << [num |-> parseInt(Slice(s, p, d - 1)),
                       title |-> Remove(Remove(trim(Slice(s, g, end - 1)),
                                               "**"), Backquote),
                       pos |-> end] >>

\* the while loop of headingPattern.exec from position from
RECURSIVE headingPositions(_, _)
headingPositions(s, from) ==
    IF from > Len(s) THEN << >>
    ELSE LET h == HeadingAt(s, from) IN
         IF h = << >> THEN headingPositions(s, from + 1)
         ELSE h \o headingPositions(s, h[1].pos)

\* Strategy 1, the for loop over headingPositions from i: the description is
\* the trimmed text from the end of a heading to the last "###" at or before
\* the end of the next heading (the section end for the last), the title
\* when that is empty
RECURSIVE HeadingTasks(_, _, _, _)
HeadingTasks(s, hp, i, tasks) ==
    IF i > Len(hp) THEN tasks
    ELSE LET start == hp[i].pos
             end == IF i + 1 <= Len(hp)
                    THEN LastIndexOf(s, "###", hp[i + 1].pos)
                    ELSE Len(s) + 1
             description == trim(Slice(s, start, end - 1)) IN
         HeadingTasks(s, hp, i + 1,
             Append(tasks,
                    PendingTask(NextIndex(tasks, hp[i].num), hp[i].title,
                                IF description = "" THEN hp[i].title
                                ELSE description)))

\* the position after up to two "*" from i: a greedy \*{0,2}
SkipStars(s, i) ==
    IF At(s, i) # "*" THEN i ELSE IF At(s, i + 1) # "*" THEN i + 1 ELSE i + 2

\* the lookahead (?=\n\s*\d+\.|\n\s*$|$) at position t of s
InlineStops(s, t) ==
    \/ t > Len(s)
    \/ /\ At(s, t) = "\n"
       /\ LET k == SkipSpaces(s, t + 1)
              d == SkipDigits(s, k) IN
          k > Len(s) \/ (d > k /\ At(s, d) = ".")

\* the lazy (.+?) of the description: the first position at or after t at
\* which the lookahead holds
RECURSIVE InlineEnd(_, _)
InlineEnd(s, t) ==
    IF InlineStops(s, t) THEN t ELSE InlineEnd(s, t + 1)

\* inlinePattern (flags g and s) matched at position m of s:
\* <<[num, title, description, pos]>>, << >> when it does not match there.
\* The lazy title group takes one character, after the longest \s+ and
\* \*{0,2} that still leave one character to it and one to the description
\* group; the description group starts after the longest \*{0,2}\s*, the
\* separator and \s* that leave it a character, and runs to the lookahead.
\* The separators are "-" and ":" (the plans of this model are ASCII)
InlineAt(s, m) ==
    IF ~(m = 1 \/ At(s, m) = "\n") THEN << >>
    ELSE LET p == SkipSpaces(s, IF At(s, m) = "\n" THEN m + 1 ELSE m)
             d == SkipDigits(s, p) IN
         IF d = p \/ At(s, d) # "." THEN << >>
         ELSE LET b == d + 1
                  w == SkipSpaces(s, b)
                  aMax == SkipStars(s, w)
                  a == IF aMax <= Len(s) - 1 THEN aMax ELSE Len(s) - 1 IN
              IF w = b \/ a < b + 1 THEN << >>
              ELSE LET x == SkipSpaces(s, SkipStars(s, a + 1))
                       e == IF At(s, x) \in {"-", ":"}
                            THEN SkipSpaces(s, x + 1) ELSE x
                       start == IF e <= Len(s) THEN e ELSE Len(s)
                       end == InlineEnd(s, start + 1) IN
                   << [num |-> parseInt(Slice(s, p, d - 1)),
                       title |-> trim(At(s, a)),
                       description |-> trim(Slice(s, start, end - 1)),
                       pos |-> end] >>

\* Strategy 2, the while loop of inlinePattern.exec from position from
RECURSIVE InlineTasks(_, _, _)
InlineTasks(s, from, tasks) ==
    IF from > Len(s) THEN tasks
    ELSE LET im == InlineAt(s, from) IN
         IF im = << >> THEN InlineTasks(s, from + 1, tasks)
         ELSE InlineTasks(s, im[1].pos,
                  Append(tasks,
                         PendingTask(NextIndex(tasks, im[1].num),
                                     im[1].title, im[1].description)))

\* line.match(/^\s*\d+\.\s+(.+)/): <<[num, text]>> with text the group,
\* trimmed and without "**"; << >> when the line does not match
BareAt(line) ==
    LET p == SkipSpaces(line, 1)
        d == SkipDigits(line, p) IN
    IF d = p \/ At(line, d) # "." THEN << >>
    ELSE LET w == SkipSpaces(line, d + 1)
             G == { k \in (d + 2)..w : k <= Len(line) } IN
         IF G = {} THEN << >>
         ELSE << [num |-> parseInt(Slice(line, p, d - 1)),
                  text |-> Remove(trim(Slice(line, Max(G), Len(line))),
                                  "**")] >>

\* Strategy 3, the for loop over the lines from line i
RECURSIVE BareTasks(_, _, _)
BareTasks(lines, i, tasks) ==
    IF i > Len(lines) THEN tasks
    ELSE LET sm == BareAt(lines[i]) IN
         BareTasks(lines, i + 1,
             IF sm = << >> THEN tasks
             ELSE Append(tasks,
                         PendingTask(NextIndex(tasks, sm[1].num),
                                     sm[1].text, sm[1].text)))

\* mutant: there is no fallback
RunsBareNever(tasks) == FALSE

\* mutant: the fallback runs whatever strategy 2 found
RunsBareAlways(tasks) == TRUE

\* if (tasks.length === 0)
RunsBare(tasks) == Len(tasks) = 0

\* parsePlanTasks(config): [] when plan.md is missing or has no Tasks
\* section; the heading tasks when there is a heading; else the inline
\* tasks, and the bare numbered lines when there is none
parsePlanTasks(planMd) ==
    IF ~Exists(planMd) THEN << >>
    ELSE LET tasksMatch == TasksMatch(Content(planMd), 1) IN
         IF tasksMatch = << >> THEN << >>
         ELSE LET tasksSection == tasksMatch[1]
                  hp == headingPositions(tasksSection, 1) IN
              IF Len(hp) > 0 THEN HeadingTasks(tasksSection, hp, 1, << >>)
              ELSE LET tasks == InlineTasks(tasksSection, 1, << >>) IN
                   IF RunsBare(tasks)
                   THEN BareTasks(Split(tasksSection), 1, tasks)
                   ELSE tasks

\* the single task main pushes when the plan yields none
SyntheticTask ==
    PendingTask(0, "Execute full plan",
                "Execute the approved plan as a single task.")

----------------------------------------------------------------------------
(* The session directory *)

\* loadState's fresh state when state.json does not exist
FreshState ==
    [phase |-> "planning", taskIndex |-> 0, totalTasks |-> 0,
     planApproved |-> FALSE]

\* no session directory; archived: sessions/ holds an archived session
NoSession(archived) ==
    [dir |-> FALSE, stateJson |-> NoFile, tasksJson |-> NoFile,
     intentMd |-> NoFile, backbriefMd |-> NoFile,
     backbriefFeedbackMd |-> NoFile, planMd |-> NoFile,
     crossCheckMd |-> NoFile, reviewMd |-> NoFile,
     decisionLog |-> NoFile, complete |-> {}, archived |-> archived,
     cliPlan |-> NoFile]

----------------------------------------------------------------------------
(* The orchestrator process *)

NoResult == [exitCode |-> 0, stdout |-> EmptyOut, doc |-> << >>]

\* locals of main, runPlanning and runExecution at process start
InitMem ==
    [state |-> FreshState, tasks |-> << >>, first |-> 0, i |-> 0, k |-> 0,
     revision |-> 0, revisionFeedback |-> ""]

NoProc ==
    [kind |-> "none", alive |-> FALSE, stdoutOpen |-> FALSE, wrote |-> FALSE,
     framework |-> {}, systemPrompt |-> << >>, userPrompt |-> "", task |-> 0,
     completionFile |-> "", result |-> NoResult]

NoAnswer == "none"

\* observation reset at every process start
RunObs(o) ==
    [o EXCEPT !.iter = << >>, !.planInvocations = 0, !.revisions = 0,
              !.lastFeedback = "", !.approvedInRun = FALSE,
              !.reviewReturned = FALSE, !.exit = "running"]

InitObs ==
    [iter |-> << >>,            \* events of the current planning-loop iteration
     planInvocations |-> 0,     \* planning-agent invocations of this run
     revisions |-> 0,           \* rejections followed by feedback, this run
     lastFeedback |-> "",       \* the feedback given with the last rejection
     approvedInRun |-> FALSE,   \* the operator answered yes to the approval prompt
     reviewReturned |-> FALSE,  \* the review invocation of this run has exited
     finished |-> {},           \* indices of tasks whose outcome was recorded
     reinvoked |-> FALSE,       \* an agent was spawned for a finished task
     concurrent |-> FALSE,      \* a subprocess was spawned while one was alive
     overlap |-> FALSE,         \* the orchestrator touched files while one was alive
     interrupts |-> 0,
     env |-> {},                \* the paths that existed at the last start
     errors |-> << >>,          \* the configuration errors it printed
     exit |-> "none"]           \* how the last process ended: "exit0", "exit1",
                                \* "no_output" (ui.error, then exit 0), "killed"

\* the planning loop is over: its events and counters are dropped
PlanningOver(o) ==
    [o EXCEPT !.iter = << >>, !.planInvocations = 0, !.revisions = 0,
              !.lastFeedback = ""]

\* observation of a new session (after archive or delete)
SessionObs(o) == [o EXCEPT !.finished = {}, !.reinvoked = FALSE]

\* the orchestrator reads or writes session / store files in this step
Touch(o) == [o EXCEPT !.overlap = @ \/ proc.alive]

Init ==
    /\ pc = "off"
    /\ fs = NoSession(FALSE)
    /\ mem = InitMem
    /\ proc = NoProc
    /\ ui = NoAnswer
    /\ obs = InitObs

\* process.exit(code): the process is gone, the disk stays
Exit(how) ==
    /\ pc' = "off"
    /\ mem' = InitMem
    /\ proc' = NoProc
    /\ obs' = [obs EXCEPT !.exit = how]

----------------------------------------------------------------------------
(* main: configuration and session lifecycle *)

\* REQUIRED_FRAMEWORK_FILES and REQUIRED_DATA_FILES, as paths
RequiredFrameworkFiles ==
    <<"framework/CLAUDE.md", "framework/cross-check-mandate.md",
      "framework/onboarding-protocol.md">>
RequiredDataFiles == <<"data/memories.json", "data/patterns.json">>

\* the paths of s that are not in exists, in the order of s
RECURSIVE MissingOf(_, _)
MissingOf(s, exists) ==
    IF s = << >> THEN << >>
    ELSE (IF Head(s) \in exists THEN << >> ELSE <<Head(s)>>)
            \o MissingOf(Tail(s), exists)

\* mutant: validation stops at the first error
validateConfigFirst(exists) ==
    LET all == MissingOf(<<"framework">> \o RequiredFrameworkFiles \o <<"data">>
                           \o RequiredDataFiles \o <<"project">>, exists)
    IN IF all = << >> THEN << >> ELSE <<Head(all)>>

\* validateConfig(config): one error per missing directory, and per missing
\* required file of a directory that exists; exists is the set of paths
\* that exist
validateConfig(exists) ==
    (IF "framework" \notin exists THEN <<"framework">>
     ELSE MissingOf(RequiredFrameworkFiles, exists))
    \o (IF "data" \notin exists THEN <<"data">>
        ELSE MissingOf(RequiredDataFiles, exists))
    \o (IF "project" \notin exists THEN <<"project">> ELSE << >>)

\* every path validateConfig looks at
ConfigPaths ==
    {"framework", "data", "project"}
        \cup {RequiredFrameworkFiles[i] : i \in 1..Len(RequiredFrameworkFiles)}
        \cup {RequiredDataFiles[i] : i \in 1..Len(RequiredDataFiles)}

\* the installations the orchestrator is started in: complete; without the
\* project directory; without the framework directory and one store file;
\* without two framework files, the data directory and the project
Environments ==
    { ConfigPaths,
      ConfigPaths \ {"project"},
      ConfigPaths \ ({"framework", "data/patterns.json"}
                        \cup {RequiredFrameworkFiles[i] : i \in 1..3}),
      ConfigPaths \ {"framework/CLAUDE.md", "framework/onboarding-protocol.md",
                      "data", "data/memories.json", "data/patterns.json",
                      "project"} }

\* main up to handleExistingSession's existsSync(statePath): configuration
\* errors are printed as a list and the process exits with code 1 before
\* anything else happens
Start(exists) ==
    /\ pc = "off"
    /\ mem' = InitMem
    /\ proc' = NoProc
    /\ ui' = NoAnswer
    /\ UNCHANGED fs
    /\ LET errors == validateConfig(exists)
           o == [RunObs(obs) EXCEPT !.env = exists, !.errors = errors] IN
       IF Len(errors) > 0
       THEN /\ pc' = "off"
            /\ obs' = [o EXCEPT !.exit = "exit1"]
       ELSE /\ pc' = IF Exists(fs.stateJson) THEN "select" ELSE "load"
            /\ obs' = Touch(o)

\* mutant: resume is offered for every phase
SessionOptionsWithResume(phase) == {"resume", "archive", "delete", "quit"}

\* the options handleExistingSession offers for the persisted phase
SessionOptions(phase) ==
    IF phase = "complete" THEN {"archive", "delete", "quit"}
    ELSE {"resume", "archive", "delete", "quit"}

\* handleExistingSession's return value for the selected action
Proceeds(action) == action \in {"resume", "archive", "delete"}

\* mutant: the directory is removed unless it is archived
SessionAfterRemoving(action, f) ==
    IF action = "archive" THEN NoSession(TRUE) ELSE NoSession(f.archived)

\* archiveSession (renameSync of the directory) / deleteSession (rmSync),
\* or the directory left as it is
SessionAfter(action, f) ==
    IF action = "archive" THEN NoSession(TRUE)
    ELSE IF action = "delete" THEN NoSession(f.archived)
    ELSE f

\* handleExistingSession after the operator's selection
Select(action) ==
    /\ pc = "select"
    /\ action \in SessionOptions(Content(fs.stateJson).phase) \cup {CANCEL}
    /\ ui' = action
    /\ IF action # CANCEL /\ Proceeds(action)
       THEN /\ fs' = SessionAfter(action, fs)
            /\ pc' = "load"
            /\ obs' = IF action = "resume" THEN obs ELSE SessionObs(obs)
            /\ UNCHANGED <<mem, proc>>
       ELSE /\ fs' = SessionAfter(action, fs)
            /\ Exit("exit0")

\* the phase main enters for the loaded state
PhaseEntry(state, f) ==
    CASE state.phase = "planning" ->
            IF Exists(f.intentMd) THEN "intent_confirm" ELSE "intent_ask"
      [] state.phase = "execution" -> "exec_load"
      [] state.phase = "review" -> "review_spawn"
      [] OTHER -> "off"

\* ensureSessionDir, loadState
Load ==
    /\ pc = "load"
    /\ fs' = [fs EXCEPT !.dir = TRUE]
    /\ LET state == IF Exists(fs.stateJson) THEN Content(fs.stateJson)
                    ELSE FreshState IN
       /\ mem' = [mem EXCEPT !.state = state]
       /\ pc' = PhaseEntry(state, fs)
       /\ obs' = [Touch(obs) EXCEPT
                    !.exit = IF PhaseEntry(state, fs) = "off" THEN "exit0" ELSE @]
    /\ ui' = NoAnswer
    /\ UNCHANGED proc

\* collectIntent: "Use this intent?" when intent.md exists
IntentConfirm(keepIt) ==
    /\ pc = "intent_confirm"
    /\ keepIt \in {"yes", "no", CANCEL}
    /\ ui' = keepIt
    /\ UNCHANGED fs
    /\ IF keepIt = CANCEL THEN Exit("exit0")
       ELSE /\ pc' = IF keepIt = "yes" THEN "backbrief_spawn" ELSE "intent_ask"
            /\ obs' = Touch(obs)
            /\ UNCHANGED <<mem, proc>>

\* collectIntent: ui.collectIntent, writeFileSync(intentPath)
IntentAsk(intent) ==
    /\ pc = "intent_ask"
    /\ intent \in {"intent", CANCEL}
    /\ ui' = intent
    /\ IF intent = CANCEL THEN Exit("exit0") /\ UNCHANGED fs
       ELSE /\ fs' = [fs EXCEPT !.intentMd = File(intent)]
            /\ pc' = "backbrief_spawn"
            /\ obs' = Touch(obs)
            /\ UNCHANGED <<mem, proc>>

\* the orchestrator process is interrupted (signal, crash): the subprocess
\* dies with it (same process group), the disk stays as it is
Kill ==
    /\ pc # "off"
    /\ obs.interrupts < MaxInterrupts
    /\ pc' = "off"
    /\ mem' = InitMem
    /\ proc' = NoProc
    /\ obs' = [obs EXCEPT !.interrupts = @ + 1, !.exit = "killed"]
    /\ ui' = NoAnswer
    /\ UNCHANGED fs

----------------------------------------------------------------------------
(* runClaude and the agent subprocess *)

Prompt(text, feedback) == [text |-> text, feedback |-> feedback]

\* mutant: the planning prompt is assembled with both framework documents
FrameworkFilesShared(kind) ==
    CASE kind \in {"backbrief", "execution", "review"} -> {"CLAUDE.md"}
      [] kind = "planning" -> {"CLAUDE.md", "cross-check-mandate.md"}
      [] kind = "crosscheck" -> {"cross-check-mandate.md"}
      [] OTHER -> {}

\* the framework documents that the assembler of a system prompt reads with
\* readFrameworkFile and puts into the prompt; the answers to review
\* questions and the prompts of ask use none
FrameworkFiles(kind) ==
    CASE kind \in {"backbrief", "planning", "execution", "review"} -> {"CLAUDE.md"}
      [] kind = "crosscheck" -> {"cross-check-mandate.md"}
      [] OTHER -> {}

\* Bun.spawn in runClaude: a fresh subprocess with the prompt on its stdin
Spawn(kind, userPrompt, task) ==
    [kind |-> kind, alive |-> TRUE, stdoutOpen |-> TRUE, wrote |-> FALSE,
     framework |-> FrameworkFiles(kind), systemPrompt |-> << >>,
     userPrompt |-> userPrompt, task |-> task, completionFile |-> "",
     result |-> NoResult]

SpawnObs(o) == [Touch(o) EXCEPT !.concurrent = @ \/ proc.alive]

\* mutant: runClaude returns at end-of-stream, without `await proc.exited`
RunClaudeReturnedAtEof(p) == ~p.stdoutOpen

\* runClaude returns after stdout reached end-of-stream and `await
\* proc.exited` resolved
RunClaudeReturned(p) == ~p.stdoutOpen /\ ~p.alive

\* mutant: result.stdout is non-empty (no trim)
HasTextUntrimmed(result) == result.stdout # EmptyOut

\* result.stdout.trim() is non-empty
HasText(result) == result.stdout = TextOut

\* The agent writes the output file its prompt designates: backbrief.md,
\* plan.md, cross-check.md, task-<index>-complete.md or review.md
AgentWrite(doc) ==
    /\ proc.alive
    /\ ~proc.wrote
    /\ proc.kind # "qa"
    /\ doc \in PlanDocs
    /\ proc.kind # "planning" => doc = DocNoTasks
    /\ proc' = [proc EXCEPT !.wrote = TRUE]
    /\ fs' = CASE proc.kind = "backbrief" ->
                    [fs EXCEPT !.backbriefMd = File("backbrief")]
               [] proc.kind = "planning" -> [fs EXCEPT !.planMd = File(doc)]
               [] proc.kind = "crosscheck" ->
                    [fs EXCEPT !.crossCheckMd = File("findings")]
               [] proc.kind = "execution" ->
                    [fs EXCEPT !.complete = @ \cup {proc.completionFile}]
               [] OTHER -> [fs EXCEPT !.reviewMd = File("review")]
    /\ UNCHANGED <<pc, mem, ui, obs>>

\* The agent's standard output, complete at end-of-stream
AgentStdout(out, doc) ==
    /\ proc.alive
    /\ proc.stdoutOpen
    /\ out \in {EmptyOut, BlankOut, TextOut}
    /\ doc \in PlanDocs
    /\ (proc.kind # "planning" \/ out # TextOut) => doc = DocNoTasks
    /\ proc' = [proc EXCEPT !.stdoutOpen = FALSE, !.result.stdout = out,
                            !.result.doc = IF proc.kind = "planning" /\ out = TextOut
                                           THEN doc ELSE << >>]
    /\ UNCHANGED <<pc, fs, mem, ui, obs>>

\* The agent exits; streams still open are closed
AgentExit(code) ==
    /\ proc.alive
    /\ code \in {0, 1}
    /\ proc' = [proc EXCEPT !.alive = FALSE, !.stdoutOpen = FALSE,
                            !.result.exitCode = code]
    /\ UNCHANGED <<pc, fs, mem, ui, obs>>

----------------------------------------------------------------------------
(* runPlanning *)

Event(o, e) == [o EXCEPT !.iter = Append(@, e)]

\* runBackbrief up to the await of runClaude
BackbriefSpawn ==
    /\ pc = "backbrief_spawn"
    /\ proc' = Spawn("backbrief", Prompt("intent", ""), 0)
    /\ pc' = "backbrief_wait"
    /\ obs' = SpawnObs(obs)
    /\ ui' = NoAnswer
    /\ UNCHANGED <<fs, mem>>

\* runBackbrief after runClaude: backbrief.md, or stdout captured into it,
\* or null ("No backbrief output detected") and main exits
BackbriefCheck ==
    /\ pc = "backbrief_wait"
    /\ RunClaudeReturned(proc)
    /\ ui' = NoAnswer
    /\ IF ~Exists(fs.backbriefMd) /\ ~HasText(proc.result)
       THEN Exit("no_output") /\ UNCHANGED fs
       ELSE /\ fs' = IF Exists(fs.backbriefMd) THEN fs
                     ELSE [fs EXCEPT !.backbriefMd = File("stdout")]
            /\ pc' = "backbrief_feedback"
            /\ proc' = NoProc
            /\ obs' = Touch(obs)
            /\ UNCHANGED mem

\* runBackbrief's feedback prompt, then writeFileSync(backbrief-feedback.md)
BackbriefFeedback(feedback) ==
    /\ pc = "backbrief_feedback"
    /\ feedback \in {"fb1", CANCEL}
    /\ ui' = feedback
    /\ IF feedback = CANCEL THEN Exit("exit0") /\ UNCHANGED fs
       ELSE /\ fs' = [fs EXCEPT !.backbriefFeedbackMd = File(feedback)]
            /\ pc' = "plan_spawn"
            /\ obs' = Touch(obs)
            /\ UNCHANGED <<mem, proc>>

\* mutant: every planning invocation gets the prompt of the first one
PlanUserPromptFirst(revision, revisionFeedback) == Prompt("produce", "")

\* the userPrompt of the planning invocation
PlanUserPrompt(revision, revisionFeedback) ==
    IF revision = 1 THEN Prompt("produce", "")
    ELSE Prompt("revise", revisionFeedback)

\* top of the while loop: revision++, assemblePlanningPrompt, runClaude
PlanSpawn ==
    /\ pc = "plan_spawn"
    /\ mem' = [mem EXCEPT !.revision = @ + 1]
    /\ proc' = Spawn("planning",
                     PlanUserPrompt(mem.revision + 1, mem.revisionFeedback), 0)
    /\ pc' = "plan_wait"
    /\ obs' = [SpawnObs(obs) EXCEPT !.iter = <<"plan_spawn">>,
                                    !.planInvocations = @ + 1]
    /\ ui' = NoAnswer
    /\ UNCHANGED fs

\* mutant: the planning invocation is repeated when it left no plan
AfterNoPlanOutputRetry == "plan_spawn"

\* where runPlanning goes when neither plan.md nor stdout text exists
AfterNoPlanOutput == "off"

\* mutant: the approval prompt follows the display of the plan
AfterPlanShownApprove == "approve"

\* what follows the display of the plan: the cross-check session
AfterPlanShown == "crosscheck_spawn"

\* after the planning invocation: plan.md, or stdout captured into it, or
\* "No plan output detected" and return false; then the plan is shown
PlanCheck ==
    /\ pc = "plan_wait"
    /\ RunClaudeReturned(proc)
    /\ ui' = NoAnswer
    /\ IF ~Exists(fs.planMd) /\ ~HasText(proc.result)
       THEN IF AfterNoPlanOutput = "off"
            THEN Exit("no_output") /\ UNCHANGED fs
            ELSE /\ pc' = AfterNoPlanOutput
                 /\ proc' = NoProc
                 /\ UNCHANGED <<fs, mem, obs>>
       ELSE /\ fs' = IF Exists(fs.planMd) THEN fs
                     ELSE [fs EXCEPT !.planMd = File(proc.result.doc)]
            /\ pc' = AfterPlanShown
            /\ proc' = NoProc
            /\ obs' = Event(Event(Touch(obs), "plan_exit"), "plan_shown")
            /\ UNCHANGED mem

\* assembleCrossCheckPrompt, runClaude
CrossCheckSpawn ==
    /\ pc = "crosscheck_spawn"
    /\ proc' = Spawn("crosscheck", Prompt("review the plan", ""), 0)
    /\ pc' = "crosscheck_wait"
    /\ obs' = Event(SpawnObs(obs), "crosscheck_spawn")
    /\ ui' = NoAnswer
    /\ UNCHANGED <<fs, mem>>

\* after the cross-check invocation: the findings are shown when
\* cross-check.md exists; then the approval prompt
CrossCheckDone ==
    /\ pc = "crosscheck_wait"
    /\ RunClaudeReturned(proc)
    /\ pc' = "approve"
    /\ proc' = NoProc
    /\ obs' = LET o == Event(Touch(obs), "crosscheck_exit") IN
              IF Exists(fs.crossCheckMd) THEN Event(o, "findings_shown") ELSE o
    /\ ui' = NoAnswer
    /\ UNCHANGED <<fs, mem>>

\* mutant: the parsed task list is saved whatever its length
AfterPlanningUnchecked(approved, tasks) ==
    IF ~approved THEN "off" ELSE "save_tasks"

\* main after runPlanning returned approved
AfterPlanning(approved, tasks) ==
    IF ~approved THEN "off"
    ELSE IF Len(tasks) = 0 THEN "confirm_proceed" ELSE "save_tasks"

\* mutant: every answer but a cancel counts as approval
ApprovedUnlessCancelled(approvalResult) == approvalResult # CANCEL

\* approved = approvalResult as boolean
Approved(approvalResult) == approvalResult = "yes"

\* "Approve this plan and proceed to execution?"; when approved runPlanning
\* returns true and main parses plan.md
Approve(approvalResult) ==
    /\ pc = "approve"
    /\ approvalResult \in {"yes", "no", CANCEL}
    /\ ui' = approvalResult
    /\ UNCHANGED fs
    /\ IF approvalResult = CANCEL THEN Exit("exit0")
       ELSE IF ~Approved(approvalResult)
       THEN /\ pc' = "revise"
            /\ obs' = Event(obs, "approve_prompt")
            /\ UNCHANGED <<mem, proc>>
       ELSE LET tasks == parsePlanTasks(fs.planMd) IN
            /\ mem' = [mem EXCEPT !.tasks = tasks, !.revision = 0,
                                   !.revisionFeedback = ""]
            /\ pc' = AfterPlanning(TRUE, tasks)
            /\ obs' = [Event(Touch(obs), "approve_prompt") EXCEPT
                         !.approvedInRun = (approvalResult = "yes")]
            /\ UNCHANGED proc

\* "What should be revised?", then unlinkSync(planPath)
Revise(feedback) ==
    /\ pc = "revise"
    /\ feedback # CANCEL => mem.revision <= MaxRevisions
    /\ feedback \in Feedbacks \cup {CANCEL}
    /\ ui' = feedback
    /\ IF feedback = CANCEL THEN Exit("exit0") /\ UNCHANGED fs
       ELSE /\ mem' = [mem EXCEPT !.revisionFeedback = feedback]
            /\ fs' = [fs EXCEPT !.planMd = NoFile]
            /\ pc' = "unlink_crosscheck"
            /\ obs' = [Touch(obs) EXCEPT !.revisions = @ + 1,
                                         !.lastFeedback = feedback]
            /\ UNCHANGED proc

\* unlinkSync(crossCheckPath) when it exists; next iteration
UnlinkCrossCheck ==
    /\ pc = "unlink_crosscheck"
    /\ fs' = [fs EXCEPT !.crossCheckMd = NoFile]
    /\ pc' = "plan_spawn"
    /\ obs' = Touch(obs)
    /\ ui' = NoAnswer
    /\ UNCHANGED <<mem, proc>>

\* "Continue to execution without a parsed task list?"
ConfirmProceed(proceed) ==
    /\ pc = "confirm_proceed"
    /\ proceed \in {"yes", "no", CANCEL}
    /\ ui' = proceed
    /\ UNCHANGED fs
    /\ IF proceed # "yes" THEN Exit("exit0")
       ELSE /\ mem' = [mem EXCEPT !.tasks = Append(@, SyntheticTask)]
            /\ pc' = "save_tasks"
            /\ UNCHANGED <<proc, obs>>

\* mutant: the approved tasks are not written before the phase is advanced
SaveTasksSkipped ==
    /\ pc = "save_tasks"
    /\ pc' = "save_state"
    /\ obs' = Touch(obs)
    /\ ui' = NoAnswer
    /\ UNCHANGED <<fs, mem, proc>>

\* saveTasks(config, tasks)
SaveTasks ==
    /\ pc = "save_tasks"
    /\ fs' = [fs EXCEPT !.tasksJson = File(mem.tasks)]
    /\ pc' = "save_state"
    /\ obs' = Touch(obs)
    /\ ui' = NoAnswer
    /\ UNCHANGED <<mem, proc>>

\* state.phase = "execution"; totalTasks; planApproved; saveState
SaveExecution ==
    /\ pc = "save_state"
    /\ LET state == [mem.state EXCEPT !.phase = "execution",
                                      !.totalTasks = Len(mem.tasks),
                                      !.planApproved = TRUE] IN
       /\ mem' = [mem EXCEPT !.state = state]
       /\ fs' = [fs EXCEPT !.stateJson = File(state)]
    /\ pc' = "exec_load"
    /\ obs' = PlanningOver(Touch(obs))
    /\ ui' = NoAnswer
    /\ UNCHANGED proc

----------------------------------------------------------------------------
(* main, phase 2: runExecution *)

\* loadTasks(config)
loadTasks(f) == IF Exists(f.tasksJson) THEN Content(f.tasksJson) ELSE << >>

\* number of tasks in remainingTasks = tasks.filter((_, i) => i >= taskIndex)
Remaining(m) == IF Len(m.tasks) > m.first THEN Len(m.tasks) - m.first ELSE 0

\* mutant: a failed task ends the process instead of the loop going on
ExecLoopPcFatal(m) ==
    IF m.i > 0 /\ m.tasks[m.first + m.i].status = "failed" THEN "off"
    ELSE IF m.i < Remaining(m) THEN "exec_spawn" ELSE "exec_update"

\* the for loop of runExecution: next task or the end of the loop
ExecLoopPc(m) == IF m.i < Remaining(m) THEN "exec_spawn" ELSE "exec_update"

\* main: loadTasks; "No tasks found. Skipping execution." or the filter of
\* the remaining tasks and the call of runExecution
ExecLoad ==
    /\ pc = "exec_load"
    /\ LET tasks == loadTasks(fs)
           m == [mem EXCEPT !.tasks = tasks, !.first = mem.state.taskIndex,
                            !.i = 0, !.k = 0] IN
       /\ mem' = m
       /\ pc' = IF Len(tasks) = 0 THEN "save_review" ELSE ExecLoopPc(m)
    /\ obs' = Touch(obs)
    /\ ui' = NoAnswer
    /\ UNCHANGED <<fs, proc>>

\* mutant: the remaining tasks are taken from the last to the first
TaskAtFromEnd(m) == Len(m.tasks) - m.i

\* tasks[i] of runExecution's loop, as a position in the full task list
TaskAt(m) == m.first + m.i + 1

\* readDecisionLog(config): the entries of decision-log.md, none when the
\* file does not exist
readDecisionLog(f) == IF Exists(f.decisionLog) THEN Content(f.decisionLog) ELSE << >>

\* the path the execution prompt tells the agent to write its summary to:
\* resolve(config.sessionDir, `task-${task.index}-complete.md`)
PromptCompletionFile(task) == "task-" \o ToString(task.index) \o "-complete.md"

\* the completionFile that runExecution tests with existsSync
completionFile(task) == "task-" \o ToString(task.index) \o "-complete.md"

\* the file assembleReviewPrompt reads with readSessionFile for a task
ReviewCompletionFile(task) == "task-" \o ToString(task.index) \o "-complete.md"

\* runExecution: task.status = "in_progress", readDecisionLog,
\* assembleExecutionPrompt (the decision log is part of the system prompt),
\* runClaude
ExecSpawn ==
    /\ pc = "exec_spawn"
    /\ LET pos == TaskAt(mem)
           task == mem.tasks[pos] IN
       /\ mem' = [mem EXCEPT !.tasks[pos].status = "in_progress"]
       /\ proc' = [Spawn("execution", Prompt("execute", ""), task.index)
                     EXCEPT !.systemPrompt = readDecisionLog(fs),
                            !.completionFile = PromptCompletionFile(task)]
       /\ obs' = [SpawnObs(obs) EXCEPT
                    !.reinvoked = @ \/ task.index \in obs.finished]
    /\ pc' = "exec_wait"
    /\ ui' = NoAnswer
    /\ UNCHANGED fs

\* appendDecisionLog(config, taskIndex, taskTitle, content)
appendDecisionLog(log, taskIndex, taskTitle, content) ==
    LET existing == IF Exists(log) THEN Content(log) ELSE << >> IN
    File(Append(existing,
                [task |-> taskIndex + 1, title |-> taskTitle,
                 content |-> content]))

\* mutant: a task that failed stays in progress
TaskOutcomeOpen(completionExists, exitCode) ==
    IF completionExists \/ exitCode = 0 THEN "completed" ELSE "in_progress"

\* mutant: the exit code alone decides
TaskOutcomeByExitCode(completionExists, exitCode) ==
    IF exitCode = 0 THEN "completed" ELSE "failed"

\* the status runExecution gives a task after its invocation
TaskOutcome(completionExists, exitCode) ==
    IF completionExists \/ exitCode = 0 THEN "completed" ELSE "failed"

\* runExecution after runClaude: the completion file or stdout goes to the
\* decision log, the task gets its status and completedAt
ExecRecord ==
    /\ pc = "exec_wait"
    /\ RunClaudeReturned(proc)
    /\ LET pos == TaskAt(mem)
           task == mem.tasks[pos]
           done == completionFile(task) \in fs.complete
           m == [mem EXCEPT
                   !.tasks[pos].status = TaskOutcome(done, proc.result.exitCode),
                   !.tasks[pos].completedAt = TRUE,
                   !.i = @ + 1] IN
       /\ fs' = IF done
                THEN [fs EXCEPT !.decisionLog =
                        appendDecisionLog(@, task.index, task.title, "summary")]
                ELSE IF proc.result.stdout # EmptyOut
                THEN [fs EXCEPT !.decisionLog =
                        appendDecisionLog(@, task.index, task.title, "stdout")]
                ELSE fs
       /\ mem' = m
       /\ pc' = ExecLoopPc(m)
       /\ obs' = [Touch(obs) EXCEPT !.finished = @ \cup {task.index}]
    /\ proc' = NoProc
    /\ ui' = NoAnswer

\* main, "Update state after each completed task": one turn of the loop over
\* the tasks runExecution returned
ExecUpdate ==
    /\ pc = "exec_update"
    /\ mem.k < Remaining(mem)
    /\ LET task == mem.tasks[mem.first + mem.k + 1]
           state == [mem.state EXCEPT !.taskIndex = task.index + 1] IN
       IF task.status \in Terminal
       THEN /\ mem' = [mem EXCEPT !.state = state, !.k = @ + 1]
            /\ fs' = [fs EXCEPT !.stateJson = File(state)]
       ELSE /\ mem' = [mem EXCEPT !.k = @ + 1]
            /\ UNCHANGED fs
    /\ obs' = Touch(obs)
    /\ ui' = NoAnswer
    /\ UNCHANGED <<pc, proc>>

\* mutant: the tasks runExecution returned are saved, not the full list
ExecSaveTasksReturned ==
    /\ pc = "exec_update"
    /\ mem.k >= Remaining(mem)
    /\ fs' = [fs EXCEPT !.tasksJson =
                File(SubSeq(mem.tasks, mem.first + 1, Len(mem.tasks)))]
    /\ pc' = "save_review"
    /\ obs' = Touch(obs)
    /\ ui' = NoAnswer
    /\ UNCHANGED <<mem, proc>>

\* main: saveTasks(config, tasks) after the update loop
ExecSaveTasks ==
    /\ pc = "exec_update"
    /\ mem.k >= Remaining(mem)
    /\ fs' = [fs EXCEPT !.tasksJson = File(mem.tasks)]
    /\ pc' = "save_review"
    /\ obs' = Touch(obs)
    /\ ui' = NoAnswer
    /\ UNCHANGED <<mem, proc>>

\* main: state.phase = "review"; saveState
SaveReview ==
    /\ pc = "save_review"
    /\ LET state == [mem.state EXCEPT !.phase = "review"] IN
       /\ mem' = [mem EXCEPT !.state = state]
       /\ fs' = [fs EXCEPT !.stateJson = File(state)]
    /\ pc' = "review_spawn"
    /\ obs' = Touch(obs)
    /\ ui' = NoAnswer
    /\ UNCHANGED proc

----------------------------------------------------------------------------
(* main, phase 3: runReview *)

\* assembleReviewPrompt, taskSummaries: for every task the content of its
\* completion file, or "No completion summary found."
taskSummaries(f, tasks) ==
    [j \in 1..Len(tasks) |->
        [task |-> tasks[j].index + 1, title |-> tasks[j].title,
         content |-> IF ReviewCompletionFile(tasks[j]) \in f.complete
                     THEN "summary" ELSE "No completion summary found."]]

\* main: loadTasks; runReview: assembleReviewPrompt, runClaude
ReviewSpawn ==
    /\ pc = "review_spawn"
    /\ mem' = [mem EXCEPT !.tasks = loadTasks(fs)]
    /\ proc' = [Spawn("review", Prompt("review", ""), 0)
                  EXCEPT !.systemPrompt = taskSummaries(fs, loadTasks(fs))]
    /\ pc' = "review_wait"
    /\ obs' = SpawnObs(obs)
    /\ ui' = NoAnswer
    /\ UNCHANGED fs

\* runReview after runClaude: findings and task summary are shown
ReviewDone ==
    /\ pc = "review_wait"
    /\ RunClaudeReturned(proc)
    /\ pc' = "review_questions"
    /\ proc' = NoProc
    /\ obs' = [Touch(obs) EXCEPT !.reviewReturned = TRUE]
    /\ ui' = NoAnswer
    /\ UNCHANGED <<fs, mem>>

\* "Do you have any questions about the review findings?" and, in the
\* question loop, "Any other questions?"
ReviewQuestions(hasQuestions) ==
    /\ pc = "review_questions"
    /\ hasQuestions \in {"yes", "no", CANCEL}
    /\ ui' = hasQuestions
    /\ UNCHANGED fs
    /\ IF hasQuestions = CANCEL THEN Exit("exit0")
       ELSE /\ pc' = IF hasQuestions = "yes" THEN "qa_ask" ELSE "save_complete"
            /\ obs' = Touch(obs)
            /\ UNCHANGED <<mem, proc>>

\* "What would you like to know?", runClaude with the question
QaAsk(question) ==
    /\ pc = "qa_ask"
    /\ question \in {"question", CANCEL}
    /\ ui' = question
    /\ UNCHANGED fs
    /\ IF question = CANCEL THEN Exit("exit0")
       ELSE /\ proc' = Spawn("qa", Prompt(question, ""), 0)
            /\ pc' = "qa_wait"
            /\ obs' = SpawnObs(obs)
            /\ UNCHANGED mem

\* the answer is shown; back to "Any other questions?"
QaDone ==
    /\ pc = "qa_wait"
    /\ RunClaudeReturned(proc)
    /\ pc' = "review_questions"
    /\ proc' = NoProc
    /\ UNCHANGED <<fs, mem, ui, obs>>

\* main: state.phase = "complete"; saveState; the process ends
SaveComplete ==
    /\ pc = "save_complete"
    /\ fs' = [fs EXCEPT !.stateJson =
                File([mem.state EXCEPT !.phase = "complete"])]
    /\ Exit("exit0")
    /\ ui' = NoAnswer

----------------------------------------------------------------------------
(* The specification *)

Next ==
    \/ \E exists \in Environments : Start(exists)
    \/ \E action \in {"resume", "archive", "delete", "quit", CANCEL} : Select(action)
    \/ Load
    \/ \E keepIt \in {"yes", "no", CANCEL} : IntentConfirm(keepIt)
    \/ \E intent \in {"intent", CANCEL} : IntentAsk(intent)
    \/ BackbriefSpawn
    \/ BackbriefCheck
    \/ \E feedback \in {"fb1", CANCEL} : BackbriefFeedback(feedback)
    \/ PlanSpawn
    \/ PlanCheck
    \/ CrossCheckSpawn
    \/ CrossCheckDone
    \/ \E approvalResult \in {"yes", "no", CANCEL} : Approve(approvalResult)
    \/ \E feedback \in Feedbacks \cup {CANCEL} : Revise(feedback)
    \/ UnlinkCrossCheck
    \/ \E proceed \in {"yes", "no", CANCEL} : ConfirmProceed(proceed)
    \/ SaveTasks
    \/ SaveExecution
    \/ ExecLoad
    \/ ExecSpawn
    \/ ExecRecord
    \/ ExecUpdate
    \/ ExecSaveTasks
    \/ SaveReview
    \/ ReviewSpawn
    \/ ReviewDone
    \/ \E hasQuestions \in {"yes", "no", CANCEL} : ReviewQuestions(hasQuestions)
    \/ \E question \in {"question", CANCEL} : QaAsk(question)
    \/ QaDone
    \/ SaveComplete
    \/ \E doc \in PlanDocs : AgentWrite(doc)
    \/ \E out \in {EmptyOut, BlankOut, TextOut}, doc \in PlanDocs : AgentStdout(out, doc)
    \/ \E code \in {0, 1} : AgentExit(code)
    \/ Kill

Spec == Init /\ [][Next]_vars

----------------------------------------------------------------------------
(* The specification of a session that is not interrupted *)

\* the steps the orchestrator process takes on its own once it can
OrchestratorStep ==
    \/ Load
    \/ BackbriefSpawn \/ BackbriefCheck
    \/ PlanSpawn \/ PlanCheck
    \/ CrossCheckSpawn \/ CrossCheckDone
    \/ UnlinkCrossCheck
    \/ SaveTasks \/ SaveExecution
    \/ ExecLoad \/ ExecSpawn \/ ExecRecord \/ ExecUpdate \/ ExecSaveTasks
    \/ SaveReview
    \/ ReviewSpawn \/ ReviewDone \/ QaDone
    \/ SaveComplete

\* the operator who goes on with the session: starts the orchestrator in a
\* complete installation, resumes, answers every prompt without cancelling,
\* and proceeds
OperatorStep ==
    \/ \E exists \in Environments :
          validateConfig(exists) = << >> /\ Start(exists)
    \/ Select("resume")
    \/ \E keepIt \in {"yes", "no"} : IntentConfirm(keepIt)
    \/ IntentAsk("intent")
    \/ BackbriefFeedback("fb1")
    \/ \E feedback \in Feedbacks : Revise(feedback)
    \/ ConfirmProceed("yes")
    \/ \E hasQuestions \in {"yes", "no"} : ReviewQuestions(hasQuestions)
    \/ QaAsk("question")

\* the answer to the approval prompt; a plan is rejected only while a
\* revision can follow
ApprovalStep ==
    \E approvalResult \in {"yes", "no"} :
        /\ approvalResult = "no" => mem.revision <= MaxRevisions
        /\ Approve(approvalResult)

\* what the agent subprocess does
AgentStep ==
    \/ \E doc \in PlanDocs : AgentWrite(doc)
    \/ \E out \in {EmptyOut, BlankOut, TextOut}, doc \in PlanDocs : AgentStdout(out, doc)
    \/ \E code \in {0, 1} : AgentExit(code)

LiveNext == OrchestratorStep \/ OperatorStep \/ ApprovalStep \/ AgentStep \/ Kill

\* Strong fairness of Approve("yes"), written with state predicates: the
\* answer is enabled exactly when the approval prompt is up, and the
\* positions save_tasks and confirm_proceed are entered only by it.
ApprovesAPlan ==
    \/ <>[](pc # "approve")
    \/ []<>(pc \in {"save_tasks", "confirm_proceed"} /\ obs.approvedInRun)

\* The process runs, the operator acts and every agent exits.  The operator
\* approves a plan and ends the review questions: asked again and again,
\* they say yes to a plan and no to further questions at some point; the
\* backbrief and planning agents, invoked again and again, leave their
\* document at some point, without which no plan could be approved.
Fairness ==
    /\ WF_vars(OrchestratorStep)
    /\ WF_vars(OperatorStep)
    /\ WF_vars(\E code \in {0, 1} : AgentExit(code))
    /\ ApprovesAPlan
    /\ SF_vars(ReviewQuestions("no"))
    /\ SF_vars(\E doc \in PlanDocs : proc.kind = "backbrief" /\ AgentWrite(doc))
    /\ SF_vars(\E doc \in PlanDocs : proc.kind = "planning" /\ AgentWrite(doc))

LiveSpec == Init /\ [][LiveNext]_vars /\ Fairness

----------------------------------------------------------------------------
(* bin/risral.ts: the single-pass command line, with ask of lib/ai.ts *)

\* ask: `await new Response(proc.stdout).text()`, the same for stderr, then
\* `await proc.exited`
AskReturned(p) == ~p.stdoutOpen /\ ~p.alive

\* ask: `if (exitCode !== 0) throw new Error(...)`
AskThrows(result) == result.exitCode # 0

\* the process starts at the intent prompt
CliInit ==
    /\ pc = "cli_intent"
    /\ fs = NoSession(FALSE)
    /\ mem = InitMem
    /\ proc = NoProc
    /\ ui = NoAnswer
    /\ obs = [InitObs EXCEPT !.exit = "running"]

\* "What do you want to build?", then ask(backbriefPrompt(intent))
CliIntent(intent) ==
    /\ pc = "cli_intent"
    /\ intent \in {"intent", CANCEL}
    /\ ui' = intent
    /\ UNCHANGED fs
    /\ IF intent = CANCEL THEN Exit("exit0")
       ELSE /\ proc' = Spawn("ask", Prompt("backbrief", intent), 0)
            /\ pc' = "cli_backbrief_wait"
            /\ obs' = SpawnObs(obs)
            /\ UNCHANGED mem

\* ask returns the trimmed stdout and the backbrief is shown, or ask throws
\* and main().catch logs the error and exits with code 1
CliBackbriefDone ==
    /\ pc = "cli_backbrief_wait"
    /\ AskReturned(proc)
    /\ ui' = NoAnswer
    /\ UNCHANGED fs
    /\ IF AskThrows(proc.result) THEN Exit("exit1")
       ELSE /\ pc' = "cli_response"
            /\ proc' = NoProc
            /\ UNCHANGED <<mem, obs>>

\* "Your response:", then the first ask(crossCheckPrompt(...))
CliRespond(userResponse) ==
    /\ pc = "cli_response"
    /\ userResponse \in {"resp", CANCEL}
    /\ ui' = userResponse
    /\ UNCHANGED fs
    /\ IF userResponse = CANCEL THEN Exit("exit0")
       ELSE /\ mem' = [mem EXCEPT !.revisionFeedback = userResponse]
            /\ proc' = Spawn("ask", Prompt("crosscheck", userResponse), 0)
            /\ pc' = "cli_crosscheck_wait"
            /\ obs' = SpawnObs(obs)

\* ask returns, parseCrossCheckResponse, concerns and overview are shown; or
\* ask throws
CliCrossCheckDone ==
    /\ pc = "cli_crosscheck_wait"
    /\ AskReturned(proc)
    /\ ui' = NoAnswer
    /\ UNCHANGED fs
    /\ IF AskThrows(proc.result) THEN Exit("exit1")
       ELSE /\ mem' = [mem EXCEPT !.tasks = <<proc.result.stdout>>]
            /\ pc' = "cli_accept"
            /\ proc' = NoProc
            /\ UNCHANGED obs

\* "Accept this plan?"; accept: writePlan and the process ends
CliAccept(action) ==
    /\ pc = "cli_accept"
    /\ action \in {"accept", "revise", CANCEL}
    /\ ui' = action
    /\ IF action = "revise"
       THEN /\ pc' = "cli_feedback"
            /\ UNCHANGED <<fs, mem, proc, obs>>
       ELSE /\ fs' = IF action = "accept"
                     THEN [fs EXCEPT !.cliPlan = File(mem.tasks[1])] ELSE fs
            /\ Exit("exit0")

\* "What should change?": the feedback is appended to userResponse and the
\* loop asks for the next cross-check
CliFeedback(feedback) ==
    /\ pc = "cli_feedback"
    /\ feedback \in Feedbacks \cup {CANCEL}
    /\ feedback # CANCEL => mem.revision < MaxRevisions
    /\ ui' = feedback
    /\ UNCHANGED fs
    /\ IF feedback = CANCEL THEN Exit("exit0")
       ELSE LET userResponse == mem.revisionFeedback \o "+" \o feedback IN
            /\ mem' = [mem EXCEPT !.revisionFeedback = userResponse,
                                   !.revision = @ + 1]
            /\ proc' = Spawn("ask", Prompt("crosscheck", userResponse), 0)
            /\ pc' = "cli_crosscheck_wait"
            /\ obs' = SpawnObs(obs)

CliNext ==
    \/ \E intent \in {"intent", CANCEL} : CliIntent(intent)
    \/ CliBackbriefDone
    \/ \E userResponse \in {"resp", CANCEL} : CliRespond(userResponse)
    \/ CliCrossCheckDone
    \/ \E action \in {"accept", "revise", CANCEL} : CliAccept(action)
    \/ \E feedback \in Feedbacks \cup {CANCEL} : CliFeedback(feedback)
    \/ \E out \in {EmptyOut, BlankOut, TextOut} : AgentStdout(out, DocNoTasks)
    \/ \E code \in {0, 1} : AgentExit(code)

CliSpec == CliInit /\ [][CliNext]_vars

----------------------------------------------------------------------------------------------------------------------------------------
(* parsePlanTasks on its own: the plan texts it is given *)

\* the number of blocks of a plan's Tasks section
MaxBlocks == 2

\* what a plan holds before its first block
PlanHeads ==
    { "## Tasks\n", "# Plan\n\n## Tasks  \n\n", "## Tasks: \n", "1. early\n" }

\* the blocks an agent writes: headings with and without a body, with
\* marked-up titles and repeated, descending and non-contiguous ordinals,
\* a deeper heading, numbered items and prose
PlanBlocks ==
    { "### 1. Set up db\ncreate schema",
      "### 5. **Api** 'v2'",
      "### 1. Ship\n\nrelease **it**\n",
      "#### 3. Deep",
      "7. **Auth**: login",
      "2. x",
      "1. ",
      "notes" }

\* what follows the last block
PlanTails == { "", "\n", "\n## Notes\n9. later", "\n---\n" }

\* the texts of at most n blocks, one below the other
RECURSIVE PlanBodies(_)
PlanBodies(n) ==
    IF n = 0 THEN {""}
    ELSE LET shorter == PlanBodies(n - 1) IN
         shorter \cup { IF body = "" THEN block ELSE body \o "\n" \o block :
                          body \in shorter, block \in PlanBlocks }

PlanTexts ==
    { head \o body \o tail :
        head \in PlanHeads, body \in PlanBodies(MaxBlocks), tail \in PlanTails }

\* a session directory that holds at most a plan.md
ParseInit ==
    /\ pc = "parse"
    /\ \E planMd \in {NoFile} \cup {File(text) : text \in PlanTexts} :
          fs = [NoSession(FALSE) EXCEPT !.dir = TRUE, !.planMd = planMd]
    /\ mem = InitMem
    /\ proc = NoProc
    /\ ui = NoAnswer
    /\ obs = InitObs

\* let tasks = parsePlanTasks(config)
ParsePlan ==
    /\ pc = "parse"
    /\ pc' = "parsed"
    /\ mem' = [mem EXCEPT !.tasks = parsePlanTasks(fs.planMd)]
    /\ UNCHANGED <<fs, proc, ui, obs>>

ParseNext == ParsePlan

ParseSpec == ParseInit /\ [][ParseNext]_vars

----------------------------------------------------------------------------
(* The reputation store: data/memories.json and data/patterns.json *)

\* the number of records of a store file
MaxRecords == 3

\* a memory record; the score is in hundredths, confidence is << >> in a
\* record that lacks the field
Memory(id, type, status, score, count) ==
    [id |-> id, type |-> type, status |-> status, confidence |-> <<score>>,
     reinforcement_count |-> count, source |-> "s", context |-> "c",
     content |-> "t"]

\* the records agents have left in memories.json: the scenario's two, one
\* at the floor and challenged, one below the floor, one deprecated, a
\* second observation, and one without confidence
MemoryPool ==
    { Memory("m1", "false_belief", "active", 30, 0),
      Memory("m2", "observation", "active", 90, 5),
      Memory("m3", "pattern", "challenged", 20, 0),
      Memory("m4", "decision", "active", 19, 9),
      Memory("m5", "drift_event", "deprecated", 80, 1),
      Memory("m6", "observation", "active", 50, 1),
      [Memory("m7", "false_belief", "active", 0, 2) EXCEPT !.confidence = << >>] }

\* a pattern record, as a memory record whose type holds the category
PatternPool ==
    { Memory("p1", "scope", "active", 70, 0),
      Memory("p2", "drift", "deprecated", 90, 3),
      Memory("p3", "scope", "challenged", 10, 1),
      [Memory("p4", "drift", "active", 0, 0) EXCEPT !.confidence = << >>] }

\* the sequences of at most n distinct records of pool
RECURSIVE Arrays(_, _)
Arrays(pool, n) ==
    IF n = 0 THEN { << >> }
    ELSE LET shorter == Arrays(pool, n - 1) IN
         shorter \cup { Append(a, r) : a \in shorter, r \in pool }

\* what JSON.parse makes of a store file: it throws ("invalid"), returns
\* null, or an object whose memories / patterns key is absent, holds a
\* value that is not an array ("number") or holds an array of records
Json(json, is, items) ==
    [json |-> json, project |-> "", records |-> [is |-> is, items |-> items]]

StoreFiles(pool, n) ==
    {NoFile}
      \cup { File(Json("invalid", "absent", << >>)),
             File(Json("null", "absent", << >>)),
             File(Json("object", "absent", << >>)),
             File(Json("object", "number", << >>)) }
      \cup { File(Json("object", "array", a)) :
               a \in { b \in Arrays(pool, n) :
                         \A i, j \in 1..Len(b) : i # j => b[i] # b[j] } }

\* a function returned text, or threw
Returned(text) == [threw |-> FALSE, text |-> text]
Threw == [threw |-> TRUE, text |-> ""]

MEMORY_TYPE_PRIORITY ==
    [false_belief |-> 0, drift_event |-> 1, decision |-> 2, pattern |-> 3,
     observation |-> 4]

\* mutant: the floor excludes the memory that is exactly at it
isMemoryIncludedAboveFloor(m) ==
    m.status # "deprecated" /\ ~(m.confidence[1] <= 20)

\* isMemoryIncluded(mem), for a record that has its confidence
isMemoryIncluded(m) == m.status # "deprecated" /\ ~(m.confidence[1] < 20)

isPatternIncluded(pat) == pat.status # "deprecated"

\* the filter reads mem.confidence.score of every record that is not
\* deprecated: a TypeError when the record has no confidence
MemoryFilterThrows(items) ==
    \E i \in 1..Len(items) :
        items[i].status # "deprecated" /\ items[i].confidence = << >>

memoryPriorityScore(m) == m.confidence[1] * (m.reinforcement_count + 1)

\* mutant: the comparison looks at the score alone
compareMemoriesByScore(a, b) == memoryPriorityScore(b) - memoryPriorityScore(a)

compareMemories(a, b) ==
    LET typeDiff == MEMORY_TYPE_PRIORITY[a.type] - MEMORY_TYPE_PRIORITY[b.type] IN
    IF typeDiff # 0 THEN typeDiff
    ELSE memoryPriorityScore(b) - memoryPriorityScore(a)

comparePatterns(a, b) == b.confidence[1] - a.confidence[1]

\* Array.prototype.sort(cmp), which is stable: the element at position i
\* goes behind those that compare before it and those that compare equal
\* and stand before it; cmp[j][i] is the comparator's result for s[j], s[i]
ArraySort(s, cmp) ==
    LET rank(i) == Cardinality({ j \in 1..Len(s) :
                       \/ cmp[j][i] < 0
                       \/ cmp[j][i] = 0 /\ j < i }) + 1 IN
    [p \in 1..Len(s) |-> s[CHOOSE i \in 1..Len(s) : rank(i) = p]]

memoryTypeLabel ==
    [false_belief |-> "FALSE BELIEF", drift_event |-> "DRIFT EVENT",
     decision |-> "DECISION", pattern |-> "PATTERN",
     observation |-> "OBSERVATION"]

\* the confidence and reinforcement part shared by both formats:
\* (score * 100).toFixed(0) of a score in hundredths
ConfidenceLine(m) ==
    "\n**Confidence:** " \o ToString(m.confidence[1]) \o "%"
        \o (IF m.reinforcement_count > 0
            THEN " | reinforced " \o ToString(m.reinforcement_count) \o "x"
            ELSE "")

formatMemory(m) ==
    "### " \o m.id \o ": " \o memoryTypeLabel[m.type]
        \o (IF m.status = "challenged" THEN " [CHALLENGED]" ELSE "")
        \o ConfidenceLine(m) \o " | **Source:** " \o m.source
        \o "\n**Context:** " \o m.context \o "\n\n" \o m.content

\* pat.category.toUpperCase() is left as written; origin and countermeasure
\* are the source and context fields of the record
formatPattern(pat) ==
    "### " \o pat.id \o ": " \o pat.type
        \o ConfidenceLine(pat) \o " | **Origin:** " \o pat.source
        \o "\n\n" \o pat.content \o "\n\n**Countermeasure:** " \o pat.context

\* sections.join("\n\n---\n\n")
RECURSIVE Join(_)
Join(sections) ==
    IF Len(sections) = 0 THEN ""
    ELSE IF Len(sections) = 1 THEN sections[1]
    ELSE sections[1] \o "\n\n---\n\n" \o Join(Tail(sections))

\* loadMemories(config) on the file memories.json
loadMemories(file) ==
    IF ~Exists(file) THEN Returned("*No memories on file.*")
    ELSE LET data == Content(file) IN
    IF data.json = "invalid" THEN Returned("*Failed to parse memories.json.*")
    ELSE IF data.json = "null" THEN Threw
    ELSE IF data.records.is = "absent" THEN Returned("*No memories on file.*")
    ELSE IF data.records.is # "array" THEN Threw
    ELSE LET memories == data.records.items IN
    IF Len(memories) = 0 THEN Returned("*No memories on file.*")
    ELSE IF MemoryFilterThrows(memories) THEN Threw
    ELSE LET included == SelectSeq(memories, isMemoryIncluded) IN
    IF Len(included) = 0
    THEN Returned("*All memories are deprecated or below confidence threshold.*")
    ELSE LET sorted == ArraySort(included,
                    [a \in DOMAIN included |-> [b \in DOMAIN included |->
                        compareMemories(included[a], included[b])]])
             sections == [i \in 1..Len(sorted) |-> formatMemory(sorted[i])] IN
         Returned("**" \o ToString(Len(included)) \o " active memories** ("
                    \o ToString(Len(memories) - Len(included))
                    \o " excluded)\n\n" \o Join(sections))

\* loadPatterns(config) on the file patterns.json: the filter reads only the
\* status; comparePatterns (with two or more records) and formatPattern read
\* pat.confidence.score
loadPatterns(file) ==
    IF ~Exists(file) THEN Returned("*No behavioral patterns on file.*")
    ELSE LET data == Content(file) IN
    IF data.json = "invalid" THEN Returned("*Failed to parse patterns.json.*")
    ELSE IF data.json = "null" THEN Threw
    ELSE IF data.records.is = "absent"
    THEN Returned("*No behavioral patterns on file.*")
    ELSE IF data.records.is # "array" THEN Threw
    ELSE LET patterns == data.records.items IN
    IF Len(patterns) = 0 THEN Returned("*No behavioral patterns on file.*")
    ELSE LET included == SelectSeq(patterns, isPatternIncluded) IN
    IF Len(included) = 0 THEN Returned("*All patterns are deprecated.*")
    ELSE IF \E i \in 1..Len(included) : included[i].confidence = << >>
    THEN Threw
    ELSE LET sorted == ArraySort(included,
                    [a \in DOMAIN included |-> [b \in DOMAIN included |->
                        comparePatterns(included[a], included[b])]])
             sections == [i \in 1..Len(sorted) |-> formatPattern(sorted[i])] IN
         Returned("**" \o ToString(Len(included)) \o " active patterns**\n\n"
                    \o Join(sections))

\* the number of records of patterns.json
MaxPatterns == 2

\* the prompts that inject the stores through the loaders
LoaderPrompts == {"backbrief", "planning", "crosscheck", "plan-output"}

NoPrompt == [kind |-> "none", memories |-> "", patterns |-> ""]

\* the operator's answers to the first question of init
ProjectAnswers == {"Inventory tool for small teams\nno developer needed",
                   "A ledger for two"}

\* the two stores before a command: the loaders are independent, so each
\* store takes all its contents while the other is missing or holds one
\* record that is injected
StorePairs ==
    (StoreFiles(MemoryPool, MaxRecords)
        \X {NoFile, File(Json("object", "array",
                               <<Memory("p1", "scope", "active", 70, 0)>>))})
    \cup
    ({NoFile, File(Json("object", "array",
                        <<Memory("m1", "false_belief", "active", 30, 0)>>))}
        \X StoreFiles(PatternPool, MaxPatterns))

\* the orchestrator process of the commands below: no session is involved
StoreInit ==
    /\ pc = "shell"
    /\ \E pair \in StorePairs :
          fs = [memoriesJson |-> pair[1], patternsJson |-> pair[2],
                projectIntentMd |-> NoFile]
    /\ mem = InitMem
    /\ proc = NoPrompt
    /\ ui = NoAnswer
    /\ obs = [InitObs EXCEPT !.exit = "running"]

\* assembleBackbriefPrompt, assemblePlanningPrompt, assembleCrossCheckPrompt
\* and assemblePlanOutput: each calls loadMemories and loadPatterns and puts
\* the two texts into its template; an exception leaves through main().catch
AssemblePrompt(kind) ==
    /\ pc = "shell"
    /\ LET memories == loadMemories(fs.memoriesJson)
           patterns == loadPatterns(fs.patternsJson) IN
       IF memories.threw \/ patterns.threw
       THEN /\ pc' = "off"
            /\ obs' = [obs EXCEPT !.exit = "exit1"]
            /\ proc' = [NoPrompt EXCEPT !.kind = kind]
       ELSE /\ pc' = "assembled"
            /\ proc' = [kind |-> kind, memories |-> memories.text,
                        patterns |-> patterns.text]
            /\ UNCHANGED obs
    /\ UNCHANGED <<fs, mem, ui>>

\* JSON.parse(...).memories ?? [] inside try / catch of runStatusCommand
StatusRecords(file) ==
    IF ~Exists(file) \/ Content(file).json # "object"
         \/ Content(file).records.is = "absent"
    THEN << >>
    ELSE Content(file).records.items

\* runStatusCommand: reads both stores and prints the summaries, which read
\* the confidence of every record that is not deprecated
StatusCommand ==
    /\ pc = "shell"
    /\ LET shown == StatusRecords(fs.memoriesJson) \o StatusRecords(fs.patternsJson) IN
       IF \E i \in 1..Len(shown) :
              shown[i].status # "deprecated" /\ shown[i].confidence = << >>
       THEN /\ pc' = "off"
            /\ obs' = [obs EXCEPT !.exit = "exit1"]
       ELSE /\ pc' = "status"
            /\ UNCHANGED obs
    /\ UNCHANGED <<fs, mem, proc, ui>>

\* the template init writes for a store
StoreTemplate == File(Json("object", "array", << >>))

\* mutant: init writes the template whether or not the store exists
InitCreatesAlways(file) == TRUE

\* if (!existsSync(path)) of the two stores
InitCreates(file) == ~Exists(file)

\* runInitCommand up to the first question: (mkdir and) the two stores,
\* created from their templates when they do not exist
InitStores ==
    /\ pc = "shell"
    /\ fs' = [fs EXCEPT
               !.memoriesJson = IF InitCreates(@) THEN StoreTemplate ELSE @,
               !.patternsJson = IF InitCreates(@) THEN StoreTemplate ELSE @]
    /\ pc' = IF Exists(fs.projectIntentMd) THEN "init_confirm" ELSE "init_questions"
    /\ UNCHANGED <<mem, proc, ui, obs>>

\* "Update the project intent?": cancel exits, no keeps the intent
InitConfirm(redo) ==
    /\ pc = "init_confirm"
    /\ pc' = CASE redo = CANCEL -> "off"
               [] redo = "yes" -> "init_questions"
               [] OTHER -> "shell"
    /\ obs' = [obs EXCEPT !.exit = IF redo = CANCEL THEN "exit0" ELSE @]
    /\ ui' = redo
    /\ UNCHANGED <<fs, mem, proc>>

\* lines 197-205: parse memories.json, set project to the first line of the
\* answer, write it back; a parse error or a null document is skipped
InitProject(file, what) ==
    IF ~Exists(file) \/ Content(file).json # "object" THEN file
    ELSE File([Content(file) EXCEPT !.project = Slice(Split(what)[1], 1, 100)])

\* the five questions (a cancel at any of them exits), then project-intent.md
\* and the project name in memories.json
InitAnswers(what) ==
    /\ pc = "init_questions"
    /\ ui' = what
    /\ IF what = CANCEL
       THEN /\ pc' = "off"
            /\ obs' = [obs EXCEPT !.exit = "exit0"]
            /\ UNCHANGED fs
       ELSE /\ pc' = "shell"
            /\ fs' = [fs EXCEPT !.projectIntentMd = File(what),
                                !.memoriesJson = InitProject(@, what)]
            /\ UNCHANGED obs
    /\ UNCHANGED <<mem, proc>>

StoreNext ==
    \/ \E kind \in LoaderPrompts : AssemblePrompt(kind)
    \/ StatusCommand
    \/ InitStores
    \/ \E redo \in {"yes", "no", CANCEL} : InitConfirm(redo)
    \/ \E what \in ProjectAnswers \cup {CANCEL} : InitAnswers(what)

StoreSpec == StoreInit /\ [][StoreNext]_vars

----------------------------------------------------------------------------
(* The confidence update rules the agents are given for the stores *)

\* the number of updates applied to one confidence
MaxUpdates == 4

\* a confidence is an exact fraction <<numerator, denominator>>
Hundredths(k) == <<k, 100>>

\* a < b; the denominators are powers of ten, one divides the other
Less(a, b) ==
    IF a[2] <= b[2] THEN a[1] * (b[2] \div a[2]) < b[1]
    ELSE a[1] < b[1] * (a[2] \div b[2])

\* mutant: reinforcement adds 0.1 whatever the confidence
reinforceFlat(old) == <<10 * old[1] + old[2], 10 * old[2]>>

\* On reinforcement: new_score = old_score + 0.1 * (1 - old_score)
reinforce(old) == <<9 * old[1] + old[2], 10 * old[2]>>

\* On contradiction: new_score = old_score * 0.8
contradict(old) == <<8 * old[1], 10 * old[2]>>

\* a record enters the store with any confidence of [0,1], in hundredths
ScoreInit ==
    /\ pc = "agent"
    /\ fs = NoSession(FALSE)
    /\ \E k \in 0..100 :
          mem = [start |-> Hundredths(k), old |-> Hundredths(k),
                 score |-> Hundredths(k), last |-> "none",
                 reinforcements |-> 0, contradictions |-> 0]
    /\ proc = NoProc
    /\ ui = NoAnswer
    /\ obs = InitObs

Updated(kind, new) ==
    /\ pc = "agent"
    /\ mem.reinforcements + mem.contradictions < MaxUpdates
    /\ mem' = [mem EXCEPT
                 !.old = mem.score, !.score = new, !.last = kind,
                 !.reinforcements = IF kind = "reinforcement" THEN @ + 1 ELSE @,
                 !.contradictions = IF kind = "contradiction" THEN @ + 1 ELSE @]
    /\ UNCHANGED <<pc, fs, proc, ui, obs>>

Reinforcement == Updated("reinforcement", reinforce(mem.score))

Contradiction == Updated("contradiction", contradict(mem.score))

ScoreNext == Reinforcement \/ Contradiction

ScoreSpec == ScoreInit /\ [][ScoreNext]_vars

----------------------------------------------------------------------------
(* state.json as text: JSON.stringify and JSON.parse of the session state *)

\* the clock ticks of a round trip, and the task counts of a persisted state
MaxTick == 2
MaxTotalTasks == 2

\* new Date().toISOString() at clock tick t
toISOString(t) == "2026-01-01T00:00:0" \o ToString(t) \o ".000Z"

\* JSON.stringify(state, null, 2): the keys in the order loadState made them
stringify(state) ==
    "{\n  \"phase\": \"" \o state.phase
        \o "\",\n  \"taskIndex\": " \o ToString(state.taskIndex)
        \o ",\n  \"totalTasks\": " \o ToString(state.totalTasks)
        \o ",\n  \"planApproved\": " \o (IF state.planApproved THEN "true" ELSE "false")
        \o ",\n  \"startedAt\": \"" \o state.startedAt
        \o "\",\n  \"lastUpdated\": \"" \o state.lastUpdated \o "\"\n}"

\* the first position at or after from where lit starts, 0 if none
Find(text, lit, from) ==
    LET hits == { p \in from..Len(text) : StartsWith(text, p, lit) } IN
    IF hits = {} THEN 0 ELSE CHOOSE p \in hits : \A q \in hits : p <= q

\* where the value of a key starts in the text of an object
ValueAt(text, key) ==
    LET lit == "\"" \o key \o "\": " IN Find(text, lit, 1) + Len(lit)

StringValue(text, key) ==
    LET b == ValueAt(text, key) + 1 IN Slice(text, b, Find(text, "\"", b) - 1)

NumberValue(text, key) ==
    LET b == ValueAt(text, key) IN parseInt(Slice(text, b, SkipDigits(text, b) - 1))

BooleanValue(text, key) == StartsWith(text, ValueAt(text, key), "true")

\* JSON.parse(raw) as OrchestratorState
parseState(raw) ==
    [phase |-> StringValue(raw, "phase"),
     taskIndex |-> NumberValue(raw, "taskIndex"),
     totalTasks |-> NumberValue(raw, "totalTasks"),
     planApproved |-> BooleanValue(raw, "planApproved"),
     startedAt |-> StringValue(raw, "startedAt"),
     lastUpdated |-> StringValue(raw, "lastUpdated")]

\* the states an earlier run has saved, with the tick of their last save
Persisted ==
    { [phase |-> phase, taskIndex |-> taskIndex, totalTasks |-> totalTasks,
       planApproved |-> planApproved, startedAt |-> toISOString(started),
       lastUpdated |-> toISOString(updated)] :
        phase \in {"planning", "execution", "review", "complete"},
        taskIndex \in 0..MaxTotalTasks, totalTasks \in 0..MaxTotalTasks,
        planApproved \in BOOLEAN,
        started \in 0..MaxTick, updated \in 0..MaxTick }

NoState == [FreshState EXCEPT !.phase = "none"]

\* a persisted state.json and a clock that is not before its last save
RoundTripInit ==
    /\ pc = "resume"
    /\ \E state \in Persisted, now \in 0..MaxTick :
          /\ state.taskIndex <= state.totalTasks
          /\ ~Less(<<parseInt(Slice(state.lastUpdated, 18, 19)), 1>>,
                   <<parseInt(Slice(state.startedAt, 18, 19)), 1>>)
          /\ ~Less(<<now, 1>>, <<parseInt(Slice(state.lastUpdated, 18, 19)), 1>>)
          /\ fs = [stateJson |-> File(stringify(state))]
          /\ ui = now
    /\ mem = [state |-> NoState, first |-> NoState, second |-> NoState]
    /\ proc = NoProc
    /\ obs = InitObs

\* loadState: the file exists, JSON.parse(raw); mem.first keeps the value
\* as it was loaded
LoadState ==
    /\ pc = "resume"
    /\ LET state == parseState(Content(fs.stateJson)) IN
       mem' = [mem EXCEPT !.state = state, !.first = state]
    /\ pc' = "loaded"
    /\ UNCHANGED <<fs, proc, ui, obs>>

\* mutant: the save writes the text without setting lastUpdated, and of a
\* state whose task index is back at 0
SaveStateReset ==
    /\ pc = "loaded"
    /\ LET state == [mem.state EXCEPT !.taskIndex = 0] IN
       /\ mem' = [mem EXCEPT !.state = state]
       /\ fs' = [fs EXCEPT !.stateJson = File(stringify(state))]
    /\ pc' = "saved"
    /\ UNCHANGED <<proc, ui, obs>>

\* saveState(config, state) of the loaded object: it sets state.lastUpdated
\* to the clock and writes the text
SaveStateBack ==
    /\ pc = "loaded"
    /\ LET state == [mem.state EXCEPT !.lastUpdated = toISOString(ui)] IN
       /\ mem' = [mem EXCEPT !.state = state]
       /\ fs' = [fs EXCEPT !.stateJson = File(stringify(state))]
    /\ pc' = "saved"
    /\ UNCHANGED <<proc, ui, obs>>

\* loadState again
LoadStateAgain ==
    /\ pc = "saved"
    /\ mem' = [mem EXCEPT !.second = parseState(Content(fs.stateJson))]
    /\ pc' = "reloaded"
    /\ UNCHANGED <<fs, proc, ui, obs>>

RoundTripNext == LoadState \/ SaveStateBack \/ LoadStateAgain

RoundTripSpec == RoundTripInit /\ [][RoundTripNext]_vars

----------------------------------------------------------------------------
(* runClaude and the pipes of the agent subprocess *)

\* the chunks a pipe holds before a write to it blocks, and the number of
\* chunks the agent writes
PipeCapacity == 2
MaxWrites == 4

\* what the agent writes, in order: one chunk to stdout or to stderr
Scripts == UNION { [1..n -> {"stdout", "stderr"}] : n \in 0..MaxWrites }

\* runClaude after Bun.spawn with stdout and stderr piped, stdin.write and
\* stdin.end: the first stdoutReader.read() is awaited (ask of lib/ai.ts
\* awaits new Response(proc.stdout).text() at the same place)
PipeInit ==
    /\ pc = "read_stdout"
    /\ fs = NoSession(FALSE)
    /\ mem = [stdoutPipe |-> 0, stderrPipe |-> 0, stdout |-> 0, stderr |-> 0]
    /\ \E script \in Scripts : proc = [script |-> script, exited |-> FALSE]
    /\ ui = NoAnswer
    /\ obs = InitObs

\* the agent writes its next chunk; the write blocks while the pipe is full
AgentWrites ==
    /\ proc.script # << >>
    /\ LET stream == Head(proc.script) IN
       IF stream = "stdout"
       THEN /\ mem.stdoutPipe < PipeCapacity
            /\ mem' = [mem EXCEPT !.stdoutPipe = @ + 1]
       ELSE /\ mem.stderrPipe < PipeCapacity
            /\ mem' = [mem EXCEPT !.stderrPipe = @ + 1]
    /\ proc' = [proc EXCEPT !.script = Tail(@)]
    /\ UNCHANGED <<pc, fs, ui, obs>>

\* the agent has written everything: it exits, which closes its ends of
\* both pipes
AgentExits ==
    /\ proc.script = << >>
    /\ ~proc.exited
    /\ proc' = [proc EXCEPT !.exited = TRUE]
    /\ UNCHANGED <<pc, fs, mem, ui, obs>>

\* stdoutReader.read() returns a value: stdout += decoder.decode(value)
ReadStdout ==
    /\ pc = "read_stdout"
    /\ mem.stdoutPipe > 0
    /\ mem' = [mem EXCEPT !.stdout = @ + mem.stdoutPipe, !.stdoutPipe = 0]
    /\ UNCHANGED <<pc, fs, proc, ui, obs>>

\* stdoutReader.read() returns done: break, then
\* await new Response(proc.stderr).text()
StdoutDone ==
    /\ pc = "read_stdout"
    /\ mem.stdoutPipe = 0
    /\ proc.exited
    /\ pc' = "read_stderr"
    /\ UNCHANGED <<fs, mem, proc, ui, obs>>

\* new Response(proc.stderr).text() takes what is in the pipe
ReadStderr ==
    /\ pc = "read_stderr"
    /\ mem.stderrPipe > 0
    /\ mem' = [mem EXCEPT !.stderr = @ + mem.stderrPipe, !.stderrPipe = 0]
    /\ UNCHANGED <<pc, fs, proc, ui, obs>>

\* the end of stderr: text() resolves, then await proc.exited
StderrDone ==
    /\ pc = "read_stderr"
    /\ mem.stderrPipe = 0
    /\ proc.exited
    /\ pc' = "await_exit"
    /\ UNCHANGED <<fs, mem, proc, ui, obs>>

\* proc.exited resolves: return { exitCode, stdout, stderr }
ReturnResult ==
    /\ pc = "await_exit"
    /\ proc.exited
    /\ pc' = "returned"
    /\ UNCHANGED <<fs, mem, proc, ui, obs>>

PipeNext ==
    \/ AgentWrites
    \/ AgentExits
    \/ ReadStdout
    \/ StdoutDone
    \/ ReadStderr
    \/ StderrDone
    \/ ReturnResult

PipeSpec == PipeInit /\ [][PipeNext]_vars

----------------------------------------------------------------------------
(* The subcommand router: main of index.ts in front of the commands *)

SUBCOMMANDS == {"plan", "learn", "status", "init"}

\* the paths validateConfig finds: the framework and the project are there,
\* the data directory holds the stores of fs
RouterPaths(f, dataDir) ==
    {"framework", "project"}
        \cup {RequiredFrameworkFiles[i] : i \in 1..Len(RequiredFrameworkFiles)}
        \cup (IF dataDir THEN {"data"} ELSE {})
        \cup (IF Exists(f.memoriesJson) THEN {"data/memories.json"} ELSE {})
        \cup (IF Exists(f.patternsJson) THEN {"data/patterns.json"} ELSE {})

\* the stores the router is started with: each missing, the template of
\* init, or one record
RouterStores(record) ==
    {NoFile, StoreTemplate, File(Json("object", "array", <<record>>))}

\* bun run start [command]: nothing has run yet; without a store the data
\* directory is there or not
RouterInit ==
    /\ pc = "main"
    /\ \E memories \in RouterStores(Memory("m1", "false_belief", "active", 30, 0)),
          patterns \in RouterStores(Memory("p1", "scope", "active", 70, 0)),
          intent \in {NoFile, File("A ledger for two")} :
          fs = [memoriesJson |-> memories, patternsJson |-> patterns,
                projectIntentMd |-> intent]
    /\ \E dataDir \in BOOLEAN :
          /\ (Exists(fs.memoriesJson) \/ Exists(fs.patternsJson)
                \/ Exists(fs.projectIntentMd)) => dataDir
          /\ mem = [dataDir |-> dataDir]
    /\ proc = NoPrompt
    /\ ui = NoAnswer
    /\ obs = [InitObs EXCEPT !.exit = "running"]

\* main of the router: the subcommand is taken from the arguments, then
\* validateConfig(loadConfig(remainingArgs)) whatever the subcommand is
\* (errors are printed, exit 1), and the switch enters the command
Router(subcommand) ==
    /\ pc = "main"
    /\ subcommand \in SUBCOMMANDS
    /\ ui' = subcommand
    /\ LET errors == validateConfig(RouterPaths(fs, mem.dataDir)) IN
       IF Len(errors) > 0
       THEN /\ pc' = "off"
            /\ obs' = [obs EXCEPT !.errors = errors, !.exit = "exit1"]
       ELSE /\ pc' = "shell"
            /\ UNCHANGED obs
    /\ UNCHANGED <<fs, mem, proc>>

\* the switch (subcommand) and what the command does; runLearnCommand is
\* not followed
RouterNext ==
    \/ \E subcommand \in SUBCOMMANDS : Router(subcommand)
    \/ ui = "plan" /\ \E kind \in LoaderPrompts : AssemblePrompt(kind)
    \/ ui = "status" /\ StatusCommand
    \/ ui = "init" /\ InitStores
    \/ \E redo \in {"yes", "no", CANCEL} : InitConfirm(redo)
    \/ \E what \in ProjectAnswers \cup {CANCEL} : InitAnswers(what)

RouterSpec == RouterInit /\ [][RouterNext]_vars

----------------------------------------------------------------------------
(* Startup on a stored session: handleExistingSession, archive and delete, *)
(* ensureSessionDir, loadState and loadTasks, with the files as documents  *)

\* state.json as a document: JSON text that parses or not; phase is "" when
\* the object has no phase
StateDoc(json, phase, taskIndex, totalTasks) ==
    [json |-> json, phase |-> phase, taskIndex |-> taskIndex,
     totalTasks |-> totalTasks, planApproved |-> phase # ""]

\* tasks.json as a document
TasksDoc(json, tasks) == [json |-> json, items |-> tasks]

\* no session directory
NoStored ==
    [dir |-> FALSE, stateJson |-> NoFile, tasksJson |-> NoFile,
     planMd |-> NoFile, intentMd |-> NoFile, decisionLog |-> NoFile,
     complete |-> {}]

\* the state.json files of the sessions of this model: valid for each phase
\* that is persisted, not valid JSON, and an object without phase
StoredStates ==
    {File(StateDoc("object", "execution", 0, 2)),
     File(StateDoc("object", "execution", 1, 2)),
     File(StateDoc("object", "review", 2, 2)),
     File(StateDoc("object", "complete", 2, 2)),
     File(StateDoc("object", "", 0, 0)),
     File(StateDoc("invalid", "", 0, 0))}

\* the tasks.json files of the sessions of this model
StoredTasks ==
    {NoFile,
     File(TasksDoc("invalid", << >>)),
     File(TasksDoc("array", <<[PendingTask(0, "Set up database", "p1")
                                 EXCEPT !.status = "completed",
                                        !.completedAt = TRUE],
                               PendingTask(1, "Write API", "p3")>>))}

\* the session directories a start of the orchestrator finds
StoredSessions ==
    {NoStored, [NoStored EXCEPT !.dir = TRUE, !.intentMd = File("intent"),
                                !.planMd = File(DocHeading)]}
    \cup { [dir |-> TRUE, stateJson |-> state, tasksJson |-> tasks,
            planMd |-> File(DocHeading), intentMd |-> File("intent"),
            decisionLog |-> log, complete |-> done] :
             state \in StoredStates, tasks \in StoredTasks,
             log \in {NoFile, File(<<"entry">>)},
             done \in {{}, {"task-0-complete.md"}} }

\* s with every ":" and "." replaced by "-"
RECURSIVE ReplaceColonsAndDots(_)
ReplaceColonsAndDots(s) ==
    IF s = "" THEN ""
    ELSE (IF At(s, 1) \in {":", "."} THEN "-" ELSE At(s, 1))
            \o ReplaceColonsAndDots(Slice(s, 2, Len(s)))

\* new Date().toISOString().replace(/[:.]/g, "-").slice(0, 19)
ArchiveTimestamp(now) == Slice(ReplaceColonsAndDots(toISOString(now)), 1, 19)

\* an archived session under sessions/
Archived(timestamp, session) == [name |-> timestamp, session |-> session]

\* the orchestrator is started at clock tick now; archives under sessions/
\* are of earlier seconds
StartupInit ==
    /\ pc = "existing_session"
    /\ \E session \in StoredSessions, now \in 1..MaxTick,
          sessions \in {{}, {Archived(ArchiveTimestamp(0),
                               [NoStored EXCEPT !.dir = TRUE,
                                                !.intentMd = File("old")])}} :
          /\ fs = [session |-> session, sessions |-> sessions]
          /\ mem = [state |-> StateDoc("object", "", 0, 0), now |-> now,
                    tasks |-> << >>]
    /\ proc = NoProc
    /\ ui = NoAnswer
    /\ obs = [InitObs EXCEPT !.exit = "running"]

\* mutant: the directory is copied to the archive and stays where it is
archiveSessionCopy(f, now) ==
    [f EXCEPT !.sessions = @ \cup {Archived(ArchiveTimestamp(now), f.session)}]

\* archiveSession: renameSync(sessionDir, sessions/<timestamp>)
archiveSession(f, now) ==
    [session |-> NoStored,
     sessions |-> f.sessions \cup {Archived(ArchiveTimestamp(now), f.session)}]

\* deleteSession: rmSync(sessionDir, { recursive: true, force: true })
deleteSession(f) == [f EXCEPT !.session = NoStored]

\* an exception that reaches main().catch: "Fatal error:", process.exit(1)
Fatal(error) ==
    /\ pc' = "off"
    /\ obs' = [obs EXCEPT !.errors = <<error>>, !.exit = "exit1"]

\* handleExistingSession: no state.json, no prompt; otherwise JSON.parse of
\* the file, phase = prevState.phase || "unknown", and the operator's choice
handleExistingSession(action) ==
    /\ pc = "existing_session"
    /\ UNCHANGED <<mem, proc>>
    /\ IF ~Exists(fs.session.stateJson)
       THEN /\ action = NoAnswer
            /\ pc' = "load"
            /\ UNCHANGED <<fs, ui, obs>>
       ELSE IF Content(fs.session.stateJson).json = "invalid"
       THEN /\ action = NoAnswer
            /\ Fatal("SyntaxError")
            /\ UNCHANGED <<fs, ui>>
       ELSE /\ action \in SessionOptions(Content(fs.session.stateJson).phase)
                              \cup {CANCEL}
            /\ ui' = action
            /\ fs' = CASE action = "archive" -> archiveSession(fs, mem.now)
                       [] action = "delete" -> deleteSession(fs)
                       [] OTHER -> fs
            /\ IF action # CANCEL /\ Proceeds(action)
               THEN pc' = "load" /\ UNCHANGED obs
               ELSE pc' = "off" /\ obs' = [obs EXCEPT !.exit = "exit0"]

\* main, lines 716-722: ensureSessionDir, loadState; then the phase the
\* loaded state names is entered; with a state that names none of them no
\* phase runs and main ends with ui.outro("Session complete")
StartupLoad ==
    /\ pc = "load"
    /\ fs' = [fs EXCEPT !.session.dir = TRUE]
    /\ LET state == IF Exists(fs.session.stateJson)
                    THEN Content(fs.session.stateJson)
                    ELSE StateDoc("object", "planning", 0, 0) IN
       /\ mem' = [mem EXCEPT !.state =
                    [state EXCEPT !.planApproved =
                        IF Exists(fs.session.stateJson) THEN @ ELSE FALSE]]
       /\ pc' = CASE state.phase = "planning" -> "planning"
                  [] state.phase = "execution" -> "load_tasks"
                  [] state.phase = "review" -> "load_tasks"
                  [] OTHER -> "off"
       /\ obs' = IF state.phase \in {"planning", "execution", "review"}
                 THEN obs ELSE [obs EXCEPT !.exit = "exit0"]
    /\ UNCHANGED <<proc, ui>>

\* loadTasks at the entry of execution or review: [] without tasks.json,
\* JSON.parse otherwise; its exception is logged by the catch of main and
\* thrown again
StartupLoadTasks ==
    /\ pc = "load_tasks"
    /\ IF Exists(fs.session.tasksJson)
            /\ Content(fs.session.tasksJson).json = "invalid"
       THEN Fatal("SyntaxError") /\ UNCHANGED mem
       ELSE /\ mem' = [mem EXCEPT !.tasks =
                        IF Exists(fs.session.tasksJson)
                        THEN Content(fs.session.tasksJson).items ELSE << >>]
            /\ pc' = mem.state.phase
            /\ UNCHANGED obs
    /\ UNCHANGED <<fs, proc, ui>>

StartupNext ==
    \/ \E action \in {NoAnswer, "resume", "archive", "delete", "quit", CANCEL} :
          handleExistingSession(action)
    \/ StartupLoad
    \/ StartupLoadTasks

StartupSpec == StartupInit /\ [][StartupNext]_vars

----------------
(* Properties *)

\* the phase a start of the orchestrator would load
PhaseOnDisk(f) ==
    IF Exists(f.stateJson) THEN Content(f.stateJson).phase ELSE "planning"

\* positions inside runPlanning
PlanningPcs ==
    {"backbrief_spawn", "backbrief_wait", "backbrief_feedback", "plan_spawn",
     "plan_wait", "crosscheck_spawn", "crosscheck_wait", "approve", "revise",
     "unlink_crosscheck"}

\* C1: the persisted phase leaves planning only in a run in which the
\* operator answered yes to the approval prompt; a persisted phase beyond
\* planning carries planApproved = true; and no step taken inside
\* runPlanning (its endings without approval included) advances the
\* persisted phase or writes tasks.json, which is written in the planning
\* phase only after the approval
C1_ApprovalGatesExecution ==
    /\ [](PhaseOnDisk(fs) # "planning" => Content(fs.stateJson).planApproved)
    /\ [][(PhaseOnDisk(fs) = "planning" /\ PhaseOnDisk(fs') # "planning")
            => obs.approvedInRun]_vars
    /\ [][(pc \in PlanningPcs)
            => (fs'.stateJson = fs.stateJson /\ fs'.tasksJson = fs.tasksJson)]_vars
    /\ [][(PhaseOnDisk(fs) = "planning" /\ fs'.tasksJson # fs.tasksJson
             /\ Exists(fs'.tasksJson)) => obs.approvedInRun]_vars

\* C1 witness: the plan was approved in this run and execution was entered
C1_Witness ==
    /\ obs.approvedInRun
    /\ PhaseOnDisk(fs) = "execution"
    /\ pc = "exec_load"

\* C2: when execution is re-entered after an interruption, the persisted
\* taskIndex equals the number of tasks whose outcome was already recorded,
\* and no agent is invoked again for a task that already finished
C2_ResumeAtTaskIndex ==
    /\ pc = "exec_load" => Content(fs.stateJson).taskIndex = Cardinality(obs.finished)
    /\ ~obs.reinvoked

\* C3: whenever the persisted phase is review, every task of the persisted
\* task list has a terminal status
C3_ReviewOnlyAfterTerminal ==
    PhaseOnDisk(fs) = "review"
        => \A i \in 1..Len(loadTasks(fs)) : loadTasks(fs)[i].status \in Terminal

\* C4: phase complete is written only by the step that follows the return
\* of the review; at the startup prompt resume can be selected exactly when
\* the persisted phase is not complete, and for a complete session archive,
\* delete and quit can; while the persisted phase is complete no agent runs
\* and state.json changes only by the archive or delete the operator selects
C4_CompleteIsTerminal ==
    /\ [][(PhaseOnDisk(fs) # "complete" /\ PhaseOnDisk(fs') = "complete")
            => (pc = "save_complete" /\ obs.reviewReturned)]_vars
    /\ [](pc = "select"
            => /\ (ENABLED Select("resume")) <=> PhaseOnDisk(fs) # "complete"
               /\ \A a \in {"archive", "delete", "quit"} : ENABLED Select(a))
    /\ [](PhaseOnDisk(fs) = "complete" => ~proc.alive)
    /\ [][(PhaseOnDisk(fs) = "complete")
            => \/ fs'.stateJson = fs.stateJson /\ ~proc'.alive
               \/ pc = "select" /\ ui' \in {"archive", "delete"}]_vars

\* C4 witness: a start of the orchestrator finds a complete session
C4_Witness ==
    /\ pc = "select"
    /\ PhaseOnDisk(fs) = "complete"
    /\ obs.exit = "running"

\* C5: the session directory goes away only by the archive or delete the
\* operator selects at the startup prompt, and only archive adds an archive;
\* quit or cancel at that prompt leaves the directory as it is and ends the
\* process with no agent started; resume changes no file at the prompt
C5_NeverAutoDeleted ==
    /\ [][(fs.dir /\ ~fs'.dir) => (pc = "select" /\ ui' \in {"archive", "delete"})]_vars
    /\ [][(fs'.archived # fs.archived) => (pc = "select" /\ ui' = "archive")]_vars
    /\ [][(pc = "select" /\ ui' \in {"quit", CANCEL})
            => (fs' = fs /\ pc' = "off" /\ ~proc'.alive)]_vars
    /\ [][(pc = "select" /\ ui' = "resume") => fs' = fs]_vars

\* C5 witness: the operator quit at the startup prompt and the session is
\* still on disk
C5_Witness ==
    /\ pc = "off"
    /\ ui = "quit"
    /\ fs.dir
    /\ Exists(fs.stateJson)

\* events of the current iteration of the planning loop
Happened(e) == \E i \in 1..Len(obs.iter) : obs.iter[i] = e
Pos(e) == CHOOSE i \in 1..Len(obs.iter) : obs.iter[i] = e
Before(a, b) == Happened(a) /\ Happened(b) /\ Pos(a) < Pos(b)

C7_RevisionStartsFresh ==
    /\ (pc = "plan_spawn" /\ mem.revision >= 1)
            => (~Exists(fs.planMd) /\ ~Exists(fs.crossCheckMd))
    /\ (pc = "plan_wait" /\ mem.revision >= 2)
            => /\ obs.lastFeedback \in Feedbacks
               /\ proc.userPrompt = Prompt("revise", obs.lastFeedback)

\* C7 witness: the second revision runs with the second feedback
C7_Witness ==
    /\ pc = "plan_wait"
    /\ mem.revision = 3
    /\ proc.alive
    /\ proc.userPrompt.feedback = "fb2"
    /\ obs.lastFeedback = "fb2"

\* positions inside the while loop of runPlanning
LoopPcs ==
    {"plan_spawn", "plan_wait", "crosscheck_spawn", "crosscheck_wait",
     "approve", "revise", "unlink_crosscheck"}

\* C8: the planning invocations of a run are one more than the rejections
\* with feedback (as many while the next one is being prepared), and the
\* loop is left only by an approval, a cancel, a missing plan output or the
\* interruption of the process
C8_OnlyOperatorRetries ==
    /\ [](pc \in LoopPcs
            => obs.planInvocations =
                 IF pc \in {"plan_spawn", "unlink_crosscheck"}
                 THEN obs.revisions ELSE obs.revisions + 1)
    /\ [][(pc \in LoopPcs /\ pc' \notin LoopPcs)
            => \/ pc = "approve" /\ ui' \in {"yes", CANCEL}
               \/ pc = "revise" /\ ui' = CANCEL
               \/ /\ pc = "plan_wait"
                  /\ ~Exists(fs.planMd) /\ ~HasText(proc.result)
                  /\ pc' = "off"
               \/ obs'.exit = "killed"]_vars
    /\ [][(pc \in LoopPcs /\ pc' = "plan_spawn" /\ pc # "plan_spawn")
            => (pc = "unlink_crosscheck" /\ ui \in Feedbacks)]_vars

\* C8 witness: the operator is asked about the third plan of a run
C8_Witness ==
    /\ pc = "approve"
    /\ obs.revisions = 2
    /\ obs.planInvocations = 3

\* C9: the operator is asked to proceed exactly when the approved plan
\* parses to no task; yes persists the one synthetic task and execution is
\* entered with totalTasks = 1; no or cancel ends the process with no file
\* changed and the phase still planning; a persisted phase execution has a
\* non-empty persisted task list of totalTasks tasks
C9_SyntheticTaskFallback ==
    /\ [](PhaseOnDisk(fs) = "execution"
            => /\ Len(loadTasks(fs)) >= 1
               /\ Content(fs.stateJson).totalTasks = Len(loadTasks(fs)))
    /\ []((pc = "exec_load" /\ obs.approvedInRun /\ parsePlanTasks(fs.planMd) = << >>)
            => /\ loadTasks(fs) = <<SyntheticTask>>
               /\ Content(fs.stateJson).totalTasks = 1)
    /\ [][(pc = "approve" /\ ui' = "yes")
            => (pc' = "confirm_proceed" <=> parsePlanTasks(fs.planMd) = << >>)]_vars
    /\ [][(pc = "confirm_proceed" /\ ui' \in {"no", CANCEL})
            => (pc' = "off" /\ fs' = fs /\ PhaseOnDisk(fs) = "planning")]_vars
    /\ [][(pc = "confirm_proceed" /\ ui' = "yes")
            => (pc' = "save_tasks" /\ mem'.tasks = <<SyntheticTask>>)]_vars

\* C9 witness: execution is entered with the synthetic task
C9_Witness ==
    /\ pc = "exec_load"
    /\ obs.approvedInRun
    /\ loadTasks(fs) = <<SyntheticTask>>
    /\ SyntheticTask.index = 0 /\ SyntheticTask.title = "Execute full plan"
    /\ SyntheticTask.status = "pending"

\* positions at which the orchestrator awaits runClaude
WaitPcs ==
    {"backbrief_wait", "plan_wait", "crosscheck_wait", "exec_wait",
     "review_wait", "qa_wait"}

\* C10: no subprocess is spawned while another is alive, the orchestrator
\* touches no session or store file while one is alive, and while one is
\* alive the orchestrator is at the await of runClaude
C10_OneSubprocess ==
    /\ ~obs.concurrent
    /\ ~obs.overlap
    /\ proc.alive => pc \in WaitPcs
    /\ pc \notin WaitPcs => proc = NoProc

\* C10 witness: the planning agent has written plan.md and is still alive
C10_Witness ==
    /\ pc = "plan_wait"
    /\ proc.alive
    /\ proc.wrote
    /\ ~proc.stdoutOpen

\* C11: within a run of the orchestrator, while the agent of a task runs
\* that task is the only one in progress, every remaining task before it has
\* its outcome recorded and every task after it is still pending; a task is
\* given to a fresh subprocess only while it is pending and no subprocess is
\* left; the decision log in its prompt holds only entries of tasks whose
\* outcome was recorded before; and runExecution returns with every
\* remaining task recorded
C11_OneTaskAtATime ==
    /\ [](pc = "exec_wait"
            => LET pos == mem.first + mem.i + 1 IN
               /\ proc.kind = "execution"
               /\ proc.task = mem.tasks[pos].index
               /\ mem.tasks[pos].status = "in_progress"
               /\ \A j \in (mem.first + 1)..(pos - 1) :
                     /\ mem.tasks[j].status \in Terminal
                     /\ mem.tasks[j].index \in obs.finished
                     /\ mem.tasks[j].index < proc.task
               /\ \A j \in (pos + 1)..Len(mem.tasks) : mem.tasks[j].status = "pending"
               /\ \A e \in 1..Len(proc.systemPrompt) :
                     proc.systemPrompt[e].task - 1 \in obs.finished
               /\ proc.systemPrompt = readDecisionLog(fs))
    /\ [][(pc = "exec_spawn" /\ pc' = "exec_wait")
            => /\ proc = NoProc
               /\ mem.tasks[mem.first + mem.i + 1].status = "pending"
               /\ proc'.alive /\ ~proc'.wrote /\ proc'.result = NoResult]_vars
    /\ []((pc = "exec_update")
            => \A j \in (mem.first + 1)..Len(mem.tasks) :
                  mem.tasks[j].status \in Terminal)

\* C11 witness: the second task runs with the first task's entry in the
\* decision log of its prompt
C11_Witness ==
    /\ pc = "exec_wait"
    /\ proc.alive
    /\ proc.task = 1
    /\ mem.first = 0
    /\ Len(proc.systemPrompt) = 1
    /\ proc.systemPrompt[1].task = 1

\* C12: a run never ends in failure because an agent invocation exited
\* with a non-zero code
C12_NonZeroExitNotFatal ==
    ~(pc = "off" /\ obs.exit = "exit1")

\* the output file the prompt of the running agent designates exists
DesignatedExists(f, p) ==
    CASE p.kind = "backbrief" -> Exists(f.backbriefMd)
      [] p.kind = "planning" -> Exists(f.planMd)
      [] p.kind = "crosscheck" -> Exists(f.crossCheckMd)
      [] p.kind = "execution" -> p.completionFile \in f.complete
      [] p.kind = "review" -> Exists(f.reviewMd)
      [] OTHER -> FALSE

\* C13: when an invocation has ended with visible text on stdout and its
\* designated output file does not exist, the step that follows the
\* invocation stores the captured stdout in the session directory
C13_StdoutFallback ==
    [][(/\ pc \in {"backbrief_wait", "plan_wait", "crosscheck_wait",
                   "exec_wait", "review_wait"}
        /\ pc' # pc
        /\ obs'.exit # "killed"
        /\ ~DesignatedExists(fs, proc)
        /\ HasText(proc.result))
          => fs' # fs]_vars

C15_ConfigErrorsFirst ==
    /\ [][(pc = "off" /\ pc' = "off")
            => /\ obs'.exit = "exit1"
               /\ fs' = fs /\ proc' = NoProc /\ ui' = NoAnswer
               /\ obs'.overlap = obs.overlap
               /\ obs'.concurrent = obs.concurrent]_vars
    /\ [](obs.exit = "exit1"
            => /\ pc = "off"
               /\ Len(obs.errors) >= 1
               /\ \A path \in ConfigPaths \ obs.env :
                    LET dir == IF path \in {"framework", "data", "project"} THEN path
                               ELSE IF SubSeq(path, 1, 4) = "data" THEN "data"
                               ELSE "framework" IN
                    (path = dir \/ dir \in obs.env)
                        => \E i \in 1..Len(obs.errors) : obs.errors[i] = path)
    /\ []((pc # "off" \/ obs.exit \notin {"exit1", "none"})
            => (ConfigPaths \subseteq obs.env /\ obs.errors = << >>))

\* C15 witness: a start ended with four configuration errors
C15_Witness ==
    /\ pc = "off"
    /\ obs.exit = "exit1"
    /\ Len(obs.errors) = 4
    /\ "project" \notin obs.env

\* the Tasks section of the plan on disk, "" when there is none
SectionOf(f) ==
    IF ~Exists(f.planMd) \/ TasksMatch(Content(f.planMd), 1) = << >> THEN ""
    ELSE TasksMatch(Content(f.planMd), 1)[1]

\* the ordinals written in the numbered headings and in the numbered items
\* of the section s
HeadingOrdinals(s) ==
    LET hp == headingPositions(s, 1) IN [i \in 1..Len(hp) |-> hp[i].num]

\* C16: every task list parsePlanTasks returns numbers its tasks 0, 1, 2,
\* ... in order, whatever ordinals the plan text carries
C16_IndexIsPosition ==
    pc = "parsed" => \A i \in 1..Len(mem.tasks) : mem.tasks[i].index = i - 1

\* C16 witness: a plan whose headings carry the ordinals 5 and 1, in that
\* order, was parsed into the tasks 0 and 1
C16_Witness ==
    /\ pc = "parsed"
    /\ HeadingOrdinals(SectionOf(fs)) = <<5, 1>>
    /\ Len(mem.tasks) = 2
    /\ mem.tasks[1].index = 0 /\ mem.tasks[2].index = 1

\* what each strategy finds in the section s when run alone
HeadingYield(s) == HeadingTasks(s, headingPositions(s, 1), 1, << >>)
InlineYield(s) == InlineTasks(s, 1, << >>)
BareYield(s) == BareTasks(Split(s), 1, << >>)

\* C17: the result is what the first strategy that finds a task finds, and
\* nothing else: the heading tasks when there is one; else the inline tasks
\* when there is one; else the tasks of the bare fallback
C17_FirstStrategyWins ==
    (pc = "parsed" /\ Exists(fs.planMd)
        /\ TasksMatch(Content(fs.planMd), 1) # << >>)
    => LET s == SectionOf(fs) IN
       /\ HeadingYield(s) # << >> => mem.tasks = HeadingYield(s)
       /\ (HeadingYield(s) = << >> /\ InlineYield(s) # << >>)
            => mem.tasks = InlineYield(s)
       /\ (HeadingYield(s) = << >> /\ InlineYield(s) = << >>)
            => mem.tasks = BareYield(s)

\* C17 witness: a section in which all three strategies find tasks was
\* parsed into the heading tasks alone
C17_Witness ==
    /\ pc = "parsed"
    /\ HeadingYield(SectionOf(fs)) # << >>
    /\ InlineYield(SectionOf(fs)) # << >>
    /\ BareYield(SectionOf(fs)) # << >>
    /\ mem.tasks = HeadingYield(SectionOf(fs))
    /\ Len(mem.tasks) < Len(HeadingYield(SectionOf(fs))) + Len(InlineYield(SectionOf(fs)))

\* the position after a run of blanks that starts at i (whitespace within
\* a line)
RECURSIVE SkipBlanks(_, _)
SkipBlanks(s, i) ==
    IF At(s, i) \in {" ", "\t"} THEN SkipBlanks(s, i + 1) ELSE i

\* a line starts at position k of s with optional blanks, an ordinal, a dot
\* and a blank: the position after that blank, 0 when it does not
NumberedLineAt(s, k) ==
    IF ~(k = 1 \/ At(s, k - 1) = "\n") THEN 0
    ELSE LET p == SkipBlanks(s, k)
             d == SkipDigits(s, p) IN
         IF d > p /\ At(s, d) = "." /\ At(s, d + 1) \in {" ", "\t"}
         THEN d + 2 ELSE 0

\* C18 as stated: when no heading task is found and a line of the plan
\* starts with an ordinal, a dot and whitespace, at least one task is
\* returned
C18_NumberedLineGivesTask ==
    (pc = "parsed" /\ Exists(fs.planMd)
        /\ HeadingYield(SectionOf(fs)) = << >>
        /\ \E k \in 1..Len(Content(fs.planMd)) :
              NumberedLineAt(Content(fs.planMd), k) > 0)
    => Len(mem.tasks) >= 1

\* C18, amended: when the plan has a Tasks section in which no heading task
\* is found, and a line of that section starts with an ordinal, a dot and
\* whitespace and goes on for at least one more character, at least one
\* task is returned
C18_NumberedSectionLineGivesTask ==
    (pc = "parsed" /\ Exists(fs.planMd)
        /\ HeadingYield(SectionOf(fs)) = << >>
        /\ \E k \in 1..Len(SectionOf(fs)) :
              LET n == NumberedLineAt(SectionOf(fs), k) IN
              n > 0 /\ n <= Len(SectionOf(fs)) /\ At(SectionOf(fs), n) # "\n")
    => Len(mem.tasks) >= 1

\* C18 witness: a section whose only numbered line is left alone by the
\* inline pattern was parsed into the task of the fallback
C18_Witness ==
    /\ pc = "parsed"
    /\ HeadingYield(SectionOf(fs)) = << >>
    /\ InlineYield(SectionOf(fs)) = << >>
    /\ \E k \in 1..Len(SectionOf(fs)) : NumberedLineAt(SectionOf(fs), k) > 0
    /\ Len(mem.tasks) = 1
    /\ mem.tasks[1].title = "x"

\* the section s has nothing a strategy looks for: no "###" and no line
\* that starts with a digit
Unrecognisable(s) ==
    \A k \in 1..Len(s) :
        /\ ~StartsWith(s, k, "###")
        /\ ~((k = 1 \/ At(s, k - 1) = "\n") /\ IsDigit(At(s, SkipBlanks(s, k))))

\* C19: parsePlanTasks returns a list for every plan: the empty list when
\* plan.md is missing, when the plan has no "## Tasks" heading and when the
\* Tasks section holds nothing that looks like a task; every task returned
\* is pending and carries no completedAt
C19_EmptyListNoError ==
    pc = "parsed"
    => /\ mem.tasks \in Seq([index : Nat, title : STRING, description : STRING,
                             status : {"pending"}, completedAt : {FALSE}])
       /\ ~Exists(fs.planMd) => mem.tasks = << >>
       /\ (Exists(fs.planMd) /\ IndexOf(Content(fs.planMd), "## Tasks", 1) = 0)
            => mem.tasks = << >>
       /\ (Exists(fs.planMd) /\ Unrecognisable(SectionOf(fs)))
            => mem.tasks = << >>

\* C19 witness: a plan with numbered lines and no "## Tasks" heading was
\* parsed into the empty list
C19_Witness ==
    /\ pc = "parsed"
    /\ Exists(fs.planMd)
    /\ IndexOf(Content(fs.planMd), "## Tasks", 1) = 0
    /\ \E k \in 1..Len(Content(fs.planMd)) :
          NumberedLineAt(Content(fs.planMd), k) > 0
    /\ mem.tasks = << >>

\* the position after the run of "#" that starts at i
RECURSIVE SkipHashes(_, _)
SkipHashes(s, i) == IF At(s, i) = "#" THEN SkipHashes(s, i + 1) ELSE i

\* a numbered heading of level three or deeper starts at position k of s:
\* <<[from, text, end]>> with the position of its first "#", its text
\* after the ordinal and the position after its line; << >> otherwise
TaskHeadingAt(s, k) ==
    IF ~(k = 1 \/ At(s, k - 1) = "\n") THEN << >>
    ELSE LET e == SkipHashes(s, k)
             p == SkipBlanks(s, e)
             d == SkipDigits(s, p)
             end == LineEnd(s, k) IN
         IF e - k >= 3 /\ d > p /\ At(s, d) = "." /\ At(s, d + 1) \in {" ", "\t"}
                /\ trim(Slice(s, d + 1, end - 1)) # ""
         THEN << [from |-> k, text |-> trim(Slice(s, d + 1, end - 1)),
                  end |-> end] >>
         ELSE << >>

\* the numbered headings of s from position k on, in document order
RECURSIVE TaskHeadings(_, _)
TaskHeadings(s, k) ==
    IF k > Len(s) THEN << >>
    ELSE TaskHeadingAt(s, k) \o TaskHeadings(s, k + 1)

\* C20 as stated, with the heading text read without its emphasis and code
\* marks: a section with numbered headings yields one task per heading, in
\* document order, titled with the heading text and described by the
\* trimmed text between the heading's line and the next numbered heading
\* (or the section end), by the title when that text is empty
C20_OneTaskPerHeading ==
    LET s == SectionOf(fs)
        th == TaskHeadings(s, 1) IN
    (pc = "parsed" /\ th # << >>)
    => /\ Len(mem.tasks) = Len(th)
       /\ \A i \in 1..Len(th) :
            LET title == Remove(Remove(th[i].text, "**"), Backquote)
                next == IF i < Len(th) THEN th[i + 1].from ELSE Len(s) + 1
                between == trim(Slice(s, th[i].end, next - 1)) IN
            /\ mem.tasks[i].title = title
            /\ mem.tasks[i].description = IF between = "" THEN title ELSE between

----------------------------------------------------------------------------
(* Properties of the reputation store *)

\* the records of a store file that holds an array, << >> otherwise
RecordsOf(file) ==
    IF Exists(file) /\ Content(file).json = "object"
         /\ Content(file).records.is = "array"
    THEN Content(file).records.items
    ELSE << >>

\* the positions of a formatted text where a section heading starts
Headings(text) ==
    { p \in 1..Len(text) : At(text, p) = "#" /\ StartsWith(text, p, "### ") }

\* where the section of record r starts among the headings, 0 if nowhere
SectionAt(text, heads, r) ==
    LET hits == { p \in heads : StartsWith(text, p, "### " \o r.id \o ": ") } IN
    IF hits = {} THEN 0 ELSE CHOOSE p \in hits : \A q \in hits : p <= q

\* the order of the types in the output, first to last
TypeOrder == <<"false_belief", "drift_event", "decision", "pattern", "observation">>

TypeRank(type) == CHOOSE k \in 1..Len(TypeOrder) : TypeOrder[k] = type

\* confidence x (reinforcement_count + 1), in hundredths
Priority(r) == r.confidence[1] * (r.reinforcement_count + 1)

\* C21: in the formatted memory text of a prompt, a memory of an earlier
\* type stands before every memory of a later type, whatever their scores,
\* and within one type the memory of the higher priority stands first
C21_OrderedByTypeThenPriority ==
    pc = "assembled" =>
        LET items == RecordsOf(fs.memoriesJson)
            heads == Headings(proc.memories)
            at == [i \in 1..Len(items) |-> SectionAt(proc.memories, heads, items[i])] IN
        \A i, j \in 1..Len(items) :
            LET a == items[i]
                b == items[j] IN
            (/\ at[i] > 0
             /\ at[j] > 0
             /\ \/ TypeRank(a.type) < TypeRank(b.type)
                \/ a.type = b.type /\ Priority(a) > Priority(b))
            => at[i] < at[j]

\* the observation of priority 0.9 x 6 is stored before the false belief of
\* priority 0.3 x 1 and a second observation, and comes out after the false
\* belief and before the other observation
C21_Witness ==
    /\ pc = "assembled"
    /\ LET items == RecordsOf(fs.memoriesJson)
           heads == Headings(proc.memories)
           at == [i \in 1..Len(items) |-> SectionAt(proc.memories, heads, items[i])] IN
       /\ Len(items) = 3
       /\ items[1].id = "m6" /\ items[2].id = "m2" /\ items[3].id = "m1"
       /\ at[3] > 0 /\ at[3] < at[2] /\ at[2] < at[1]

\* the filter of the claim: not deprecated, and for a memory a confidence
\* of at least 0.2
PassesFilter(r, floor) ==
    r.status # "deprecated" /\ r.confidence # << >> /\ r.confidence[1] >= floor

\* text holds a section for exactly the records of file that pass the filter
InjectsExactly(text, file, floor) ==
    LET items == RecordsOf(file)
        heads == Headings(text) IN
    /\ \A i \in 1..Len(items) :
           SectionAt(text, heads, items[i]) > 0 <=> PassesFilter(items[i], floor)
    /\ Cardinality(heads)
         = Cardinality({ i \in 1..Len(items) : PassesFilter(items[i], floor) })

C23_LoadersNeverThrow == ~(pc = "off" /\ proc.kind \in LoaderPrompts)

\* a store that exists is still there after the step with the same records
KeepsRecords(before, after) ==
    Exists(before) =>
        /\ Exists(after)
        /\ Content(after).json = Content(before).json
        /\ Content(after).records = Content(before).records

\* C24: loading, prompt assembly and status leave both stores as they are,
\* and no step of init changes the records of a store that exists: an
\* existing patterns.json is never written and an existing memories.json
\* changes in its project field at most
C24_StoreRecordsKept ==
    [][/\ KeepsRecords(fs.memoriesJson, fs'.memoriesJson)
       /\ Exists(fs.patternsJson) => fs'.patternsJson = fs.patternsJson
       /\ (pc = "shell" /\ pc' \in {"assembled", "status", "off"})
              => (/\ fs'.memoriesJson = fs.memoriesJson
                  /\ fs'.patternsJson = fs.patternsJson)]_vars

\* init has written the project name into a memories.json of three records
C24_Witness ==
    /\ pc = "shell"
    /\ Exists(fs.projectIntentMd)
    /\ Len(RecordsOf(fs.memoriesJson)) = 3
    /\ Content(fs.memoriesJson).project = "A ledger for two"

----------------------------------------------------------------------------
(* Properties of the confidence update rules *)

One == <<1, 1>>
Zero == <<0, 1>>

\* C25 as stated: from any confidence of [0,1], reinforcements alone keep
\* the confidence strictly below 1, every contradiction strictly decreases
\* it, and it is never negative
C25_BoundsFromAnyConfidence ==
    /\ (mem.reinforcements > 0 /\ mem.contradictions = 0) => Less(mem.score, One)
    /\ mem.last = "contradiction" => Less(mem.score, mem.old)
    /\ ~Less(mem.score, Zero)

\* C25, amended: from a confidence below 1, reinforcements alone keep it
\* strictly below 1 (a confidence of 1 stays 1); a contradiction strictly
\* decreases a confidence above 0 (and leaves 0 at 0); under any sequence of
\* the two updates the confidence is never negative and never above 1
C25_BoundsInsideInterval ==
    /\ (mem.reinforcements > 0 /\ mem.contradictions = 0 /\ Less(mem.start, One))
           => Less(mem.score, One)
    /\ (mem.reinforcements > 0 /\ mem.contradictions = 0 /\ mem.start = Hundredths(100))
           => ~Less(mem.score, One)
    /\ (mem.last = "contradiction" /\ Less(Zero, mem.old)) => Less(mem.score, mem.old)
    /\ (mem.last = "contradiction" /\ ~Less(Zero, mem.old)) => ~Less(mem.score, mem.old)
    /\ ~Less(mem.score, Zero)
    /\ ~Less(One, mem.score)

\* a confidence of 0.99 reinforced three times and then contradicted
C25_Witness ==
    /\ mem.start = Hundredths(99)
    /\ mem.reinforcements = 3
    /\ mem.contradictions = 1
    /\ mem.last = "contradiction"
    /\ Less(mem.score, mem.old)
    /\ Less(mem.old, One)

----------------------------------------------------------------------------
(* Properties of the state.json round trip *)

\* C26 as stated: the reloaded Session equals the first loaded one in every
\* field, lastUpdated included
C26_RoundTripIdentical == pc = "reloaded" => mem.second = mem.first

\* C26, amended: the reloaded Session equals the first loaded one in phase,
\* taskIndex, totalTasks, planApproved and startedAt; its lastUpdated is the
\* time of the save, which is also what the saved object now holds
C26_RoundTripButLastUpdated ==
    pc = "reloaded" =>
        /\ mem.second = [mem.first EXCEPT !.lastUpdated = toISOString(ui)]
        /\ mem.second = mem.state
        /\ mem.first.phase \in {"planning", "execution", "review", "complete"}

\* an approved session at task 1 of 2 saved at tick 0 is reloaded after a
\* save at tick 2
C26_Witness ==
    /\ pc = "reloaded"
    /\ mem.first.phase = "execution"
    /\ mem.first.taskIndex = 1 /\ mem.first.totalTasks = 2
    /\ mem.first.planApproved
    /\ mem.first.lastUpdated = toISOString(0)
    /\ mem.second.lastUpdated = toISOString(2)
    /\ mem.second.startedAt = mem.first.startedAt

----------------------------------------------------------------------------
(* Properties of the decision log and the prompts *)

\* the entries of decision-log.md headed '### Task n: <title>'
EntriesOf(f, n, title) ==
    { e \in 1..Len(readDecisionLog(f)) :
        readDecisionLog(f)[e].task = n /\ readDecisionLog(f)[e].title = title }

\* C27: once execution is over, decision-log.md holds exactly one entry
\* '### Task N: <title>' for every task that tasks.json records as completed
\* and none for any other task
C27_OneEntryPerCompletedTask ==
    (PhaseOnDisk(fs) \in {"review", "complete"} /\ Exists(fs.tasksJson)) =>
        \A i \in 1..Len(Content(fs.tasksJson)) :
            LET task == Content(fs.tasksJson)[i] IN
            Cardinality(EntriesOf(fs, task.index + 1, task.title))
                = IF task.status = "completed" THEN 1 ELSE 0

\* the agents of the primary role
PrimaryKinds == {"backbrief", "planning", "execution", "review"}

----------------------------------------------------------------------------
(* Progress *)

----------------------------------------------------------------------------
(* Properties of the pipes *)

\* C31: runClaude never waits for ever: as long as it has not returned,
\* the agent or runClaude can take a step, whatever the agent writes to
\* stdout and stderr
C31_NeverStuck == pc # "returned" => ENABLED PipeNext

----------------------------------------------------------------------------
(* Properties of the task outcome *)

\* C32: after a task's invocation its status is completed exactly when its
\* completion file task-<index>-complete.md exists or the exit code is 0,
\* and failed exactly when the file is absent and the exit code is not 0,
\* with completedAt set in both cases; the file the execution prompt names
\* is the file runExecution tests, and the file the review prompt reads
C32_OutcomeFromFileOrExitCode ==
    /\ [][(pc = "exec_wait" /\ pc' \in {"exec_spawn", "exec_update"}) =>
            LET pos == mem.first + mem.i + 1
                file == "task-" \o ToString(mem.tasks[pos].index)
                            \o "-complete.md"
                result == mem'.tasks[pos] IN
            /\ result.status = "completed"
                 <=> (file \in fs.complete \/ proc.result.exitCode = 0)
            /\ result.status = "failed"
                 <=> (file \notin fs.complete /\ proc.result.exitCode # 0)
            /\ result.completedAt = TRUE]_vars
    /\ [](pc = "exec_wait" =>
            proc.completionFile
              = "task-" \o ToString(mem.tasks[mem.first + mem.i + 1].index)
                    \o "-complete.md")
    /\ [](pc = "review_wait" =>
            /\ Len(proc.systemPrompt) = Len(mem.tasks)
            /\ \A j \in 1..Len(mem.tasks) :
                  proc.systemPrompt[j].content = "summary"
                    <=> ("task-" \o ToString(mem.tasks[j].index)
                            \o "-complete.md") \in fs.complete)

\* C32 witness: runExecution has returned with one task completed by its
\* completion file and one task failed without one
C32_Witness ==
    /\ pc = "exec_update"
    /\ \E j, k \in 1..Len(mem.tasks) :
          /\ mem.tasks[j].status = "completed"
          /\ mem.tasks[j].completedAt = TRUE
          /\ completionFile(mem.tasks[j]) \in fs.complete
          /\ mem.tasks[k].status = "failed"
          /\ mem.tasks[k].completedAt = TRUE
          /\ completionFile(mem.tasks[k]) \notin fs.complete

----------------------------------------------------------------------------
(* Properties of the documents shown in planning *)

\* C33: the backbrief, the plan and the cross-check findings that runPlanning
\* takes from the session directory after an invocation, shows and puts
\* before the approval prompt were produced by that invocation: written by
\* its agent, or captured from its stdout because the file did not exist
C33_ShownDocumentsAreFresh ==
    /\ [][(pc = "backbrief_wait" /\ pc' = "backbrief_feedback")
            => (proc.wrote \/ ~Exists(fs.backbriefMd))]_vars
    /\ [][(pc = "plan_wait" /\ pc' = "crosscheck_spawn")
            => (proc.wrote \/ ~Exists(fs.planMd))]_vars
    /\ [][(pc = "crosscheck_wait" /\ pc' = "approve")
            => (proc.wrote \/ ~Exists(fs.crossCheckMd))]_vars

----------------------------------------------------------------------------
(* Properties of the subcommand router *)

\* C34: with the subcommand init the router enters runInitCommand, also
\* when the data directory, memories.json or patterns.json is missing
C34_InitAlwaysRuns == ui = "init" => pc = "shell"

----------------------------------------------------------------------------
(* Properties of the task list during execution *)

\* two task lists with the same tasks: number, index, title, description
SameTasks(a, b) ==
    /\ Len(a) = Len(b)
    /\ \A i \in 1..Len(a) :
          /\ a[i].index = b[i].index
          /\ a[i].title = b[i].title
          /\ a[i].description = b[i].description

\* C35: while the persisted phase is execution, a write of tasks.json keeps
\* the number of tasks and every task's index, title and description; the
\* task list that execution holds in memory has the same tasks as the file;
\* and in tasks.json the task at array position i has index i, so that the
\* filter i >= taskIndex of a resumed run skips tasks by their index
C35_TasksNeverRenumbered ==
    /\ [][(PhaseOnDisk(fs) = "execution" /\ Exists(fs.tasksJson)
             /\ Exists(fs'.tasksJson))
            => SameTasks(Content(fs.tasksJson), Content(fs'.tasksJson))]_vars
    /\ []((pc \in {"exec_spawn", "exec_wait", "exec_update"}
             /\ Exists(fs.tasksJson))
            => SameTasks(Content(fs.tasksJson), mem.tasks))
    /\ [](Exists(fs.tasksJson) =>
            \A i \in 1..Len(Content(fs.tasksJson)) :
                Content(fs.tasksJson)[i].index = i - 1)

\* C35 witness: a resumed run skipped the first task by position and wrote
\* tasks.json with the outcome of the second
C35_Witness ==
    /\ pc = "save_review"
    /\ mem.first = 1
    /\ Exists(fs.tasksJson)
    /\ Len(Content(fs.tasksJson)) = 2
    /\ Content(fs.tasksJson)[1].status = "pending"
    /\ Content(fs.tasksJson)[2].status \in Terminal
    /\ Content(fs.tasksJson)[2].completedAt = TRUE

----------------------------------------------------------------------------
(* Properties of the backbrief step *)

\* C36: the planning agent is invoked for the first time of a run only after
\* the operator's response to the backbrief, with backbrief.md and
\* backbrief-feedback.md in the session directory; and when the backbrief
\* invocation produced no output (its agent wrote no file and its stdout
\* has no text) the run ends without a planning or cross-check invocation
C36_PlanningAfterBackbrief ==
    /\ [][(pc' = "plan_spawn" /\ pc # "plan_spawn")
            => /\ pc \in {"backbrief_feedback", "revise", "unlink_crosscheck"}
               /\ Exists(fs'.backbriefMd)
               /\ Exists(fs'.backbriefFeedbackMd)]_vars
    /\ [](proc.kind \in {"planning", "crosscheck"}
            => (Exists(fs.backbriefMd) /\ Exists(fs.backbriefFeedbackMd)))
    /\ [][(pc = "backbrief_wait" /\ RunClaudeReturned(proc) /\ ~proc.wrote
             /\ ~HasText(proc.result) /\ pc' # "backbrief_wait")
            => pc' = "off"]_vars

----------------------------------------------------------------------------
(* Properties of the startup on a stored session *)

\* C37: after the operator chose archive or delete, the session directory
\* holds none of the previous files, loadState returns phase planning,
\* taskIndex 0, totalTasks 0 and planApproved false, and the run enters
\* planning; archive puts the directory as it was under
\* sessions/<timestamp> and leaves the earlier archives as they are
C37_FreshAfterArchiveOrDelete ==
    /\ []((ui \in {"archive", "delete"} /\ pc = "load")
            => fs.session = NoStored)
    /\ []((ui \in {"archive", "delete"} /\ pc # "load")
            => /\ pc = "planning"
               /\ fs.session = [NoStored EXCEPT !.dir = TRUE]
               /\ mem.state.phase = "planning"
               /\ mem.state.taskIndex = 0
               /\ mem.state.totalTasks = 0
               /\ mem.state.planApproved = FALSE)
    /\ [][(pc = "existing_session" /\ ui' = "archive")
            => /\ [name |-> "2026-01-01T00-00-0" \o ToString(mem.now),
                   session |-> fs.session] \in fs'.sessions
               /\ fs.sessions \subseteq fs'.sessions]_vars
    /\ [][(ui' # "archive") => fs'.sessions = fs.sessions]_vars

\* C37 witness: a complete session with its completion file was archived
\* next to an earlier archive and the run entered planning
C37_Witness ==
    /\ pc = "planning"
    /\ ui = "archive"
    /\ Cardinality(fs.sessions) = 2
    /\ \E a \in fs.sessions :
          /\ Exists(a.session.stateJson)
          /\ Content(a.session.stateJson).phase = "complete"
          /\ a.session.complete # {}
          /\ Exists(a.session.tasksJson)

\* C38: a state.json or tasks.json that is not valid JSON, or a state.json
\* without phase, never ends the process by an uncaught exception and never
\* lets a resumed session end without running a phase
C38_InvalidJsonNeverFatal ==
    /\ ~(pc = "off" /\ obs.exit = "exit1" /\ obs.errors = <<"SyntaxError">>)
    /\ ~(pc = "off" /\ obs.exit = "exit0" /\ ui = "resume")

----------------------------------------------------------------------------
(* Properties of the status in_progress *)

\* the positions of the tasks in progress
InProgress(tasks) == { j \in 1..Len(tasks) : tasks[j].status = "in_progress" }

\* C39: at most one task is in progress, and only while runExecution waits
\* for the invocation of that task; when the loop of runExecution is over
\* no task given to it is pending or in progress; and tasks.json never
\* holds a task in progress
C39_OneInProgress ==
    /\ [](Cardinality(InProgress(mem.tasks)) <= 1)
    /\ [](InProgress(mem.tasks) # {}
            => /\ pc = "exec_wait"
               /\ InProgress(mem.tasks) = {mem.first + mem.i + 1}
               /\ proc.kind = "execution"
               /\ proc.task = mem.tasks[mem.first + mem.i + 1].index)
    /\ [](pc = "exec_wait" => InProgress(mem.tasks) = {mem.first + mem.i + 1})
    /\ [](pc \in {"exec_update", "save_review"}
            => \A j \in (mem.first + 1)..Len(mem.tasks) :
                  mem.tasks[j].status \in {"completed", "failed"})
    /\ [](Exists(fs.tasksJson) => InProgress(Content(fs.tasksJson)) = {})

\* C39 witness: the agent of the second task runs, the first task failed,
\* and tasks.json still has both tasks pending
C39_Witness ==
    /\ pc = "exec_wait"
    /\ proc.alive
    /\ Len(mem.tasks) = 2
    /\ mem.tasks[1].status = "failed"
    /\ mem.tasks[2].status = "in_progress"
    /\ Exists(fs.tasksJson)
    /\ \A j \in 1..2 : Content(fs.tasksJson)[j].status = "pending"

====
